---- MODULE Spec2Model ----
(***************************************************************************)
(* Real-time conversation synchronisation of the customer-service client:  *)
(* the customer chat component (CustomerChat.jsx), the agent dashboard     *)
(* (AgentDashboard.jsx), their WebSocket channels, and the authority they  *)
(* talk to (the backend, which is not part of the client sources and is    *)
(* modelled from its specification).                                       *)
(***************************************************************************)
EXTENDS Integers, Sequences, FiniteSets, TLC

VARIABLES
    cust,       \* per customer tab: the state and refs of one CustomerChat instance
    dash,       \* per agent tab: the state and refs of one AgentDashboard instance
    sockets,    \* every WebSocket object created so far, in creation order
    http,       \* HTTP requests and responses in flight
    log,        \* the authority's message store, in acceptance order
    assigned,   \* the authority's assignment of each conversation
    storage,    \* per tab: the localStorage items of the tab's browser
    last        \* the handler that ran in the last step, and its input

vars == <<cust, dash, sockets, http, log, assigned, storage, last>>

(***************************************************************************)
(* Bounds of the model.                                                    *)
(***************************************************************************)
MaxMsgs == 2        \* messages the authority accepts
MaxSends == 2       \* sends issued by one customer tab
MaxSocks == 2       \* WebSocket objects created
MaxLogins == 2      \* identities submitted on one customer tab
MaxClaims == 1      \* claims, and releases, issued by one dashboard tab
MaxInbox == 2       \* frames waiting on a channel when an outside agent acts

\* the delay of the reconnect timer, in milliseconds
ReconnectDelay == 3000

(***************************************************************************)
(* Values.                                                                 *)
(***************************************************************************)
NULL == "null"            \* JavaScript null
UNDEF == "undefined"      \* a property an object does not have
NoSock == 0               \* ws.current === null
LocalTime == "local"      \* new Date().toISOString() on the client

CustTabs == {"ct1", "ct2"}
AgentTabs == {"at1", "at2"}
Tabs == CustTabs \cup AgentTabs
Users == {"u1", "u2"}
Agents == {"A", "B"}
Texts == {"Hello", "Bye"}

MsgIds == <<"M1", "M2", "M3", "M4", "M5", "M6">>
TempIds == <<"L1", "L2", "L3", "L4", "L5", "L6">>
ServerTimes == <<"T1", "T2", "T3", "T4", "T5", "T6">>

\* the conversation of a customer (one conversation per customer identity)
ConvOf(u) == IF u = "u1" THEN "c1" ELSE "c2"
Convs == {ConvOf(u) : u \in Users}

Range(s) == {s[i] : i \in 1..Len(s)}

\* a value a JavaScript condition takes for true (of the values of the model)
Truthy(v) == v \notin {NULL, UNDEF, ""}

\* what a person types into a name input, and String.prototype.trim of it
NameInputs == {"Al", " Al ", "Bo", "  "}
trim(s) ==
    IF s = " Al " THEN "Al"
    ELSE IF s = " Ben " THEN "Ben"
    ELSE IF s = "  " THEN ""
    ELSE s

\* what the person behind an agent identifier typed into the name input:
\* handleAgentNameSubmit creates the identifier and stores the name together
AgentNameInput(agent) == IF agent = "A" THEN "Ann" ELSE " Ben "
AgentNameOf(agent) == trim(AgentNameInput(agent))

\* the localStorage items the components use, none of them set
NoItems ==
    [customer_user_id |-> NULL, customer_user_name |-> NULL,
     agent_id |-> NULL, agent_name |-> NULL]

(***************************************************************************)
(* Events on a channel and entries of a message list.                      *)
(***************************************************************************)
NoEvent ==
    [type |-> "none", message_id |-> UNDEF, conversation_id |-> UNDEF,
     text |-> UNDEF, sender |-> UNDEF, timestamp |-> UNDEF,
     image_url |-> UNDEF, ocr_text |-> UNDEF, agent_id |-> UNDEF,
     agent_name |-> UNDEF, user_id |-> UNDEF, analysis |-> UNDEF,
     from |-> NULL]      \* (history) the tab whose request created the message

\* the closure of one connectWebSocket callback: the values it captured
\* (CustomerChat: isAuthenticated, userId, showNameInputScreen;
\*  AgentDashboard: agentId, selectedConversationId)
NoClosure ==
    [isAuthenticated |-> FALSE, userId |-> NULL, show |-> TRUE,
     agentId |-> NULL, selected |-> NULL]
\* reconnectTimeout.current: null, or the timer and the callback it will run
\* (by is history: the socket whose close handler set the timer)
NoTimer == [set |-> FALSE, clo |-> NoClosure, delay |-> 0, by |-> NoSock]

NoRequest ==
    [kind |-> "none", tab |-> NULL, user |-> NULL, conv |-> NULL, agent |-> NULL,
     name |-> NULL, text |-> NULL, image |-> FALSE, ok |-> TRUE, data |-> <<>>]

(***************************************************************************)
(* The authority's records as the clients see them.                        *)
(***************************************************************************)
\* a stored message as an item of a fetched history
HistoryEntry(m) ==
    [id |-> m.id, text |-> m.text, sender |-> m.sender, timestamp |-> m.timestamp,
     image_url |-> m.image_url, ocr_text |-> m.ocr_text, tempClientSideId |-> UNDEF]

\* getConversationHistory: the stored messages of a conversation, in order
HistoryOf(conv) ==
    LET Sel(m) == m.conv = conv
    IN  [i \in 1..Len(SelectSeq(log, Sel)) |-> HistoryEntry(SelectSeq(log, Sel)[i])]

\* the event that announces a stored message on a channel
MessageEvent(m) ==
    [type |-> IF m.sender = "customer" THEN "customer_chat_message"
                                       ELSE "agent_chat_message",
     message_id |-> m.id, conversation_id |-> m.conv, text |-> m.text,
     sender |-> m.sender, timestamp |-> m.timestamp, image_url |-> m.image_url,
     ocr_text |-> m.ocr_text, agent_id |-> m.agent_id, agent_name |-> UNDEF,
     user_id |-> UNDEF, analysis |-> UNDEF, from |-> m.from]

\* the event that announces a customer message and its analysis to the agents
AnalysisEvent(m, u) ==
    [type |-> "customer_message_analysis", message_id |-> m.id,
     conversation_id |-> m.conv, text |-> m.text, sender |-> m.sender,
     timestamp |-> m.timestamp, image_url |-> m.image_url, ocr_text |-> m.ocr_text,
     agent_id |-> UNDEF, agent_name |-> UNDEF, user_id |-> u,
     analysis |-> m.analysis, from |-> m.from]

\* the event that announces a claim (agent and name those of the claiming
\* agent) or a release (agent and name NULL)
AssignmentEvent(conv, agent, name, type) ==
    [NoEvent EXCEPT !.type = type, !.conversation_id = conv, !.agent_id = agent,
                    !.agent_name = name]

(***************************************************************************)
(* CustomerChat: the updater that ws.onmessage passes to setChatHistory.   *)
(***************************************************************************)
\* the optimistic entry a customer_chat_message is matched with (0: none)
OptimisticIndexBug(h, data) ==
    LET Test(msg) == msg.sender = "customer" /\ msg.text = data.text /\ msg.id = NULL
    IN  IF \E i \in 1..Len(h) : Test(h[i])
        THEN CHOOSE i \in 1..Len(h) : Test(h[i]) /\ \A j \in (i + 1)..Len(h) : ~Test(h[j])
        ELSE 0

OptimisticIndexAnyId(h, data) ==
    LET Test(msg) == msg.sender = "customer" /\ msg.text = data.text
    IN  IF \E i \in 1..Len(h) : Test(h[i])
        THEN CHOOSE i \in 1..Len(h) : Test(h[i]) /\ \A j \in 1..(i - 1) : ~Test(h[j])
        ELSE 0

\* (findIndex: the lowest index that satisfies the test; 1-based here)
OptimisticIndex(h, data) ==
    LET Test(msg) == msg.sender = "customer" /\ msg.text = data.text /\ msg.id = NULL
    IN  IF \E i \in 1..Len(h) : Test(h[i])
        THEN CHOOSE i \in 1..Len(h) : Test(h[i]) /\ \A j \in 1..(i - 1) : ~Test(h[j])
        ELSE 0

\* the entry appended for an agent_chat_message
AgentEntryNoId(data) ==
    [id |-> UNDEF, text |-> data.text, sender |-> data.sender,
     timestamp |-> data.timestamp, image_url |-> UNDEF, ocr_text |-> UNDEF,
     tempClientSideId |-> UNDEF]

AgentEntry(data) ==
    [id |-> data.message_id, text |-> data.text, sender |-> data.sender,
     timestamp |-> data.timestamp, image_url |-> UNDEF, ocr_text |-> UNDEF,
     tempClientSideId |-> UNDEF]

\* the entry appended for a customer_chat_message nothing was matched with
CustomerEntry(data) ==
    [id |-> data.message_id, text |-> data.text, sender |-> data.sender,
     timestamp |-> data.timestamp, image_url |-> data.image_url,
     ocr_text |-> data.ocr_text, tempClientSideId |-> UNDEF]

\* the optimistic entry, updated in place with the server's details
ReconciledNoId(old, data) ==
    [old EXCEPT !.timestamp = data.timestamp,
                !.image_url = data.image_url, !.ocr_text = data.ocr_text]

Reconciled(old, data) ==
    [old EXCEPT !.id = data.message_id, !.timestamp = data.timestamp,
                !.image_url = data.image_url, !.ocr_text = data.ocr_text]

\* the duplicate guard: the message already exists by its server-assigned id
IsDuplicateOff(h, data) == FALSE

IsDuplicate(h, data) ==
    /\ data.message_id \notin {UNDEF, NULL}
    /\ \E i \in 1..Len(h) : h[i].id = data.message_id

AppendAlways(h, data) ==
    IF IsDuplicate(h, data) THEN h
    ELSE IF data.type = "agent_chat_message" THEN Append(h, AgentEntry(data))
    ELSE IF data.type = "customer_chat_message" THEN Append(h, CustomerEntry(data))
    ELSE h

CustOnMessage(h, data) ==
    IF IsDuplicate(h, data) THEN h
    ELSE IF data.type = "agent_chat_message" THEN Append(h, AgentEntry(data))
    ELSE IF data.type = "customer_chat_message"
         THEN LET k == OptimisticIndex(h, data)
              IN  IF k > 0 THEN [h EXCEPT ![k] = Reconciled(h[k], data)]
                           ELSE Append(h, CustomerEntry(data))
    ELSE h

\* the optimistic entry handleSendMessage appends
OptimisticEntryReused(text, hasImage, n) ==
    [id |-> NULL,
     text |-> text,
     sender |-> "customer",
     timestamp |-> LocalTime,
     image_url |-> IF hasImage THEN "preview" ELSE NULL,
     ocr_text |-> NULL,
     tempClientSideId |-> TempIds[1]]

OptimisticEntryOwnId(text, hasImage, n) ==
    [id |-> TempIds[n],
     text |-> text,
     sender |-> "customer",
     timestamp |-> LocalTime,
     image_url |-> IF hasImage THEN "preview" ELSE NULL,
     ocr_text |-> NULL,
     tempClientSideId |-> TempIds[n]]

OptimisticEntry(text, hasImage, n) ==
    [id |-> NULL,
     text |-> text,
     sender |-> "customer",
     timestamp |-> LocalTime,
     image_url |-> IF hasImage THEN "preview" ELSE NULL,
     ocr_text |-> NULL,
     tempClientSideId |-> TempIds[n]]

(***************************************************************************)
(* WebSocket objects.  readyState: connecting, open, closing (close() was  *)
(* called on an open socket), aborting (close() was called while it was    *)
(* connecting; readyState CLOSING), closed.                                *)
(***************************************************************************)
NewSocket(owner, uid, clo) ==
    [owner |-> owner, uid |-> uid, st |-> "connecting", inbox |-> <<>>, clo |-> clo]

\* WebSocket.close()
CloseSock(socks, s) ==
    IF s = NoSock THEN socks
    ELSE IF socks[s].st = "open" THEN [socks EXCEPT ![s].st = "closing"]
    ELSE IF socks[s].st = "connecting" THEN [socks EXCEPT ![s].st = "aborting"]
    ELSE socks

IsClosedOrClosing(socks, s) == socks[s].st \in {"closed", "closing", "aborting"}

\* the authority pushes ev on every live channel among the sockets to
Fanout(socks, to, ev) ==
    [s \in 1..Len(socks) |->
        IF socks[s].st = "open" /\ s \in to
        THEN [socks[s] EXCEPT !.inbox = Append(@, ev)]
        ELSE socks[s]]

(***************************************************************************)
(* CustomerChat: connectWebSocket and the effect that owns the channel.    *)
(***************************************************************************)
CustClosure(cs) ==
    [NoClosure EXCEPT !.isAuthenticated = cs.isAuthenticated, !.userId = cs.userId,
                      !.show = cs.showNameInputScreen]

\* connectWebSocket as created by the render that captured clo
CustConnect(cs, socks, me, clo) ==
    LET cs1 == [cs EXCEPT !.reconnectTimeout = NoTimer,
                          !.timers = @ \ {cs.reconnectTimeout.by}]
    IN  IF ~clo.isAuthenticated \/ clo.userId = NULL \/ clo.show
        THEN [c |-> [cs1 EXCEPT !.ws = NoSock], s |-> CloseSock(socks, cs1.ws)]
        ELSE IF cs1.ws = NoSock \/ IsClosedOrClosing(socks, cs1.ws)
             THEN [c |-> [cs1 EXCEPT !.ws = Len(socks) + 1],
                   s |-> Append(socks, NewSocket(me, clo.userId, clo))]
             ELSE [c |-> cs1, s |-> socks]

\* the cleanup of the WebSocket lifecycle effect
CustCleanup(cs, socks) ==
    [c |-> [cs EXCEPT !.ws = NoSock, !.reconnectTimeout = NoTimer,
                      !.timers = @ \ {cs.reconnectTimeout.by}],
     s |-> IF cs.ws # NoSock /\ socks[cs.ws].st = "open"
           THEN CloseSock(socks, cs.ws) ELSE socks]

\* the lifecycle effect re-run after a render that changed connectWebSocket
CustEffect(cs, socks, me) ==
    LET cl == CustCleanup(cs, socks)
    IN  CustConnect(cl.c, cl.s, me, CustClosure(cs))

\* setTimeout(connectWebSocket, 3000), with connectWebSocket as captured
Timer(clo) == [NoTimer EXCEPT !.set = TRUE, !.clo = clo, !.delay = ReconnectDelay]

\* ws.onclose of a CustomerChat socket
CustOnCloseWhilePending(cs, code, clo) ==
    IF code # 1000
    THEN [cs EXCEPT !.reconnectTimeout = Timer(clo)]
    ELSE cs

CustOnCloseAnyCode(cs, code, clo) ==
    IF ~cs.reconnectTimeout.set
    THEN [cs EXCEPT !.reconnectTimeout = Timer(clo)]
    ELSE cs

CustOnCloseNever(cs, code, clo) == cs

CustOnClose(cs, code, clo) ==
    IF code # 1000 /\ ~cs.reconnectTimeout.set
    THEN [cs EXCEPT !.reconnectTimeout = Timer(clo)]
    ELSE cs

\* (history) the handler that ran, its input, and the list it found
StepOn(op, tab, ev, pre) == [op |-> op, tab |-> tab, ev |-> ev, pre |-> pre]
Step(op, tab, ev) == StepOn(op, tab, ev, <<>>)

\* (history) no identity was set in the browser of the tab, or it was cleared
NoIdentity == [userId |-> NULL, userName |-> NULL]

InitCust ==
    [mounted |-> FALSE,
     userId |-> NULL, userName |-> NULL, isAuthenticated |-> FALSE,
     showNameInputScreen |-> TRUE,
     chatHistory |-> <<>>, isSending |-> FALSE, ws |-> NoSock,
     reconnectTimeout |-> NoTimer, sends |-> 0, logins |-> 0,
     \* the timers of the page that are scheduled and have neither fired nor
     \* been cleared, each named by the socket whose onclose scheduled it
     timers |-> {},
     \* (history) whether the view matched the history when the open channel
     \* of the tab was last dropped
     inSyncAtDrop |-> FALSE,
     \* (history) the identity the last setCustomerIdentity left in the state
     \* of the provider, NoIdentity once clearCustomerIdentity has run
     identitySet |-> NoIdentity]

(***************************************************************************)
(* AuthProvider: the customer identity and its items in localStorage.      *)
(***************************************************************************)
\* setCustomerIdentity(name, existingUserId), with fresh the value of uuidv4()
SetCustomerIdentityUnsaved(cs, items, name, existingUserId, fresh) ==
    LET newUserId == IF Truthy(existingUserId) THEN existingUserId ELSE fresh
        newUserName == trim(name)
    IN  [c |-> [cs EXCEPT !.userId = newUserId, !.userName = newUserName,
                          !.isAuthenticated = TRUE],
         items |-> [items EXCEPT !.customer_user_id = newUserId]]

SetCustomerIdentity(cs, items, name, existingUserId, fresh) ==
    LET newUserId == IF Truthy(existingUserId) THEN existingUserId ELSE fresh
        newUserName == trim(name)
    IN  [c |-> [cs EXCEPT !.userId = newUserId, !.userName = newUserName,
                          !.isAuthenticated = TRUE],
         items |-> [items EXCEPT !.customer_user_id = newUserId,
                                 !.customer_user_name = newUserName]]

\* clearCustomerIdentity()
ClearCustomerIdentityStateOnly(cs, items) ==
    [c |-> [cs EXCEPT !.userId = NULL, !.userName = NULL, !.isAuthenticated = FALSE],
     items |-> items]

ClearCustomerIdentity(cs, items) ==
    [c |-> [cs EXCEPT !.userId = NULL, !.userName = NULL, !.isAuthenticated = FALSE],
     items |-> [items EXCEPT !.customer_user_id = NULL,
                             !.customer_user_name = NULL]]

\* the load effect of the provider, on the state of a fresh provider
LoadCustomerIdentity(cs, items) ==
    IF Truthy(items.customer_user_id) /\ Truthy(items.customer_user_name)
    THEN [cs EXCEPT !.userId = items.customer_user_id,
                    !.userName = items.customer_user_name,
                    !.isAuthenticated = TRUE]
    ELSE cs

\* what the customer with an identifier types into the name input
CustomerNameInput(u) == IF u = "u1" THEN " Al " ELSE "Bo"

(***************************************************************************)
(* CustomerChat: handlers.                                                 *)
(***************************************************************************)
\* handleCustomerNameSubmit (existing NULL) / handleSearchExistingCustomer
\* (existing the identifier the search found, or NULL), and the effects of the
\* render that follows: the history fetch and the channel
CustNameSubmit(c, name, existing, fresh) ==
    /\ cust[c].mounted
    /\ cust[c].showNameInputScreen
    /\ trim(name) # ""
    /\ cust[c].logins < MaxLogins
    /\ LET id == SetCustomerIdentity(cust[c], storage[c], trim(name), existing, fresh)
           cs == [id.c EXCEPT !.showNameInputScreen = FALSE,
                              !.logins = @ + 1,
                              !.identitySet = [userId |-> id.c.userId,
                                               userName |-> id.c.userName]]
           r == CustEffect(cs, sockets, c)
       IN  /\ Len(r.s) <= MaxSocks
           /\ cust' = [cust EXCEPT ![c] = r.c]
           /\ sockets' = r.s
           /\ storage' = [storage EXCEPT ![c] = id.items]
           /\ http' = http \cup {[NoRequest EXCEPT !.kind = "fetch_req", !.tab = c,
                                                    !.user = cs.userId]}
    /\ last' = StepOn("handleCustomerNameSubmit", c, NoEvent,
                      [name |-> name, existing |-> existing, fresh |-> fresh])
    /\ UNCHANGED <<dash, log, assigned>>

\* the customer u enters the chat: the name is typed and the identifier is
\* the one the search found
CustSubmitName(c, u) == CustNameSubmit(c, CustomerNameInput(u), u, u)

\* handleStartNewChat, and the effects of the render that follows
CustStartNewChat(c) ==
    /\ cust[c].mounted
    /\ ~cust[c].showNameInputScreen
    /\ LET id == ClearCustomerIdentity(cust[c], storage[c])
           cs == [id.c EXCEPT !.showNameInputScreen = TRUE,
                              !.chatHistory = <<>>,
                              !.identitySet = NoIdentity]
           r == CustEffect(cs, sockets, c)
       IN  /\ cust' = [cust EXCEPT ![c] = r.c]
           /\ sockets' = r.s
           /\ storage' = [storage EXCEPT ![c] = id.items]
    /\ last' = Step("handleStartNewChat", c, NoEvent)
    /\ UNCHANGED <<dash, http, log, assigned>>

\* the page is loaded: the provider and the component mount, the load effect
\* of the provider restores the identity, and the effects of CustomerChat
\* run on it: the name screen, the history fetch and the channel
CustMount(c) ==
    /\ ~cust[c].mounted
    /\ LET fresh == [InitCust EXCEPT !.mounted = TRUE,
                                     !.sends = cust[c].sends,
                                     !.logins = cust[c].logins,
                                     !.identitySet = cust[c].identitySet]
           ld == LoadCustomerIdentity(fresh, storage[c])
           cs == [ld EXCEPT !.showNameInputScreen =
                                ~(ld.isAuthenticated /\ Truthy(ld.userId)
                                  /\ Truthy(ld.userName))]
           r == CustEffect(cs, sockets, c)
       IN  /\ Len(r.s) <= MaxSocks
           /\ cust' = [cust EXCEPT ![c] = r.c]
           /\ sockets' = r.s
           /\ http' = IF cs.showNameInputScreen THEN http
                      ELSE http \cup {[NoRequest EXCEPT !.kind = "fetch_req",
                                                        !.tab = c,
                                                        !.user = cs.userId]}
    /\ last' = Step("mount", c, NoEvent)
    /\ UNCHANGED <<dash, log, assigned, storage>>

\* the component unmounts: the cleanup of the lifecycle effect
CustUnmount(c) ==
    /\ cust[c].mounted
    /\ LET r == CustCleanup(cust[c], sockets)
       IN  /\ cust' = [cust EXCEPT ![c] = [r.c EXCEPT !.mounted = FALSE]]
           /\ sockets' = r.s
    /\ last' = Step("unmount", c, NoEvent)
    /\ UNCHANGED <<dash, http, log, assigned, storage>>

\* handleSendMessage goes past its early return
SendableWhileSending(cs, text, hasImage) == trim(text) # "" \/ hasImage

Sendable(cs, text, hasImage) ==
    ~(cs.isSending \/ (trim(text) = "" /\ ~hasImage))

\* handleSendMessage up to the request: the optimistic append
CustSend(c, text, hasImage) ==
    /\ ~cust[c].showNameInputScreen
    /\ Sendable(cust[c], text, hasImage)
    /\ cust[c].sends < MaxSends
    /\ cust' = [cust EXCEPT ![c].isSending = TRUE,
                            ![c].sends = @ + 1,
                            ![c].chatHistory =
                                Append(@, OptimisticEntry(text, hasImage,
                                                          cust[c].sends + 1))]
    /\ http' = http \cup {[NoRequest EXCEPT !.kind = "post_req", !.tab = c,
                                             !.user = cust[c].userId,
                                             !.text = text, !.image = hasImage]}
    /\ last' = StepOn("handleSendMessage", c, NoEvent, cust[c].chatHistory)
    /\ UNCHANGED <<dash, sockets, log, assigned, storage>>

\* handleSendMessage after the request: the response (or the failure)
CustSendDone(c, r) ==
    /\ r \in http /\ r.kind = "post_resp" /\ r.tab = c
    /\ http' = http \ {r}
    /\ cust' = [cust EXCEPT ![c].isSending = FALSE]
    /\ last' = StepOn(IF r.ok THEN "sendOk" ELSE "sendFailed", c, NoEvent,
                      cust[c].chatHistory)
    /\ UNCHANGED <<dash, sockets, log, assigned, storage>>

\* fetchChatHistory after the request: the response (or the failure)
CustFetchDone(c, r) ==
    /\ r \in http /\ r.kind = "fetch_resp" /\ r.tab = c
    /\ http' = http \ {r}
    /\ cust' = [cust EXCEPT ![c].chatHistory = IF r.ok THEN r.data ELSE <<>>]
    /\ last' = Step("fetchChatHistory", c, NoEvent)
    /\ UNCHANGED <<dash, sockets, log, assigned, storage>>

\* the reconnect timer fires: connectWebSocket, as captured by the timer
CustTimerFire(c) ==
    /\ \E t \in cust[c].timers :
          LET r == CustConnect([cust[c] EXCEPT !.timers = @ \ {t}], sockets, c,
                               sockets[t].clo)
          IN  /\ Len(r.s) <= MaxSocks
              /\ cust' = [cust EXCEPT ![c] = r.c]
              /\ sockets' = r.s
    /\ last' = Step("reconnect", c, NoEvent)
    /\ UNCHANGED <<dash, http, log, assigned, storage>>

(***************************************************************************)
(* The authority (the backend): message acceptance and fanout.             *)
(***************************************************************************)
NewMessage(conv, sender, text, hasImage, agent, analysis, from) ==
    [id |-> MsgIds[Len(log) + 1], conv |-> conv, text |-> text, sender |-> sender,
     timestamp |-> ServerTimes[Len(log) + 1],
     image_url |-> IF hasImage THEN "url" ELSE NULL,
     ocr_text |-> IF hasImage THEN "ocr" ELSE NULL,
     agent_id |-> agent,
     analysis |-> analysis,
     from |-> from]      \* (history) the tab whose request created the message

\* the channels of the conversation's customer
ToCustomer(conv) ==
    {s \in 1..Len(sockets) :
        sockets[s].owner \in CustTabs /\ ConvOf(sockets[s].uid) = conv}

\* the assigned agent's channels, or every agent's while nobody is assigned
ToAgents(conv) ==
    {s \in 1..Len(sockets) :
        /\ sockets[s].owner \in AgentTabs
        /\ assigned[conv] = NULL \/ sockets[s].uid = assigned[conv]}

\* every channel of the replying agent but the originating one
ToOtherTabs(agent, tab) ==
    {s \in 1..Len(sockets) :
        sockets[s].owner \in AgentTabs /\ sockets[s].uid = agent
        /\ sockets[s].owner # tab}

Respond(r, kind, ok, data) ==
    IF r.tab = NULL THEN http \ {r}
    ELSE (http \ {r}) \cup {[r EXCEPT !.kind = kind, !.ok = ok, !.data = data]}

\* POST /analyze-message, /analyze-image-message: createMessage and publish
AcceptPost(r, analysis) ==
    /\ Len(log) < MaxMsgs
    /\ LET conv == ConvOf(r.user)
           m == NewMessage(conv, "customer", r.text, r.image, UNDEF, analysis, r.tab)
       IN  /\ log' = Append(log, m)
           /\ sockets' = Fanout(Fanout(sockets, ToCustomer(conv), MessageEvent(m)),
                                ToAgents(conv), AnalysisEvent(m, r.user))
    /\ http' = Respond(r, "post_resp", TRUE, <<>>)
    /\ last' = Step("createMessage", r.tab, NoEvent)
    /\ UNCHANGED <<cust, dash, assigned, storage>>

ServerPost(r, analysis) ==
    /\ r \in http /\ r.kind = "post_req"
    /\ AcceptPost(r, analysis)

\* the request fails: a non-OK response or a network error
ServerPostFail(r) ==
    /\ r \in http /\ r.kind = "post_req" /\ r.tab # NULL
    /\ http' = Respond(r, "post_resp", FALSE, <<>>)
    /\ last' = Step("createMessageFailed", r.tab, NoEvent)
    /\ UNCHANGED <<cust, dash, sockets, log, assigned, storage>>

\* GET /chat-history/user/{id}: getConversationHistory
ServerFetch(r) ==
    /\ r \in http /\ r.kind = "fetch_req"
    /\ http' = Respond(r, "fetch_resp", TRUE, HistoryOf(ConvOf(r.user)))
    /\ last' = Step("getConversationHistory", r.tab, NoEvent)
    /\ UNCHANGED <<cust, dash, sockets, log, assigned, storage>>

ServerFetchFail(r) ==
    /\ r \in http /\ r.kind = "fetch_req"
    /\ http' = Respond(r, "fetch_resp", FALSE, <<>>)
    /\ last' = Step("getConversationHistoryFailed", r.tab, NoEvent)
    /\ UNCHANGED <<cust, dash, sockets, log, assigned, storage>>

\* POST /send-agent-message: createMessage and publish
AcceptReply(r) ==
    /\ Len(log) < MaxMsgs
    /\ LET m == NewMessage(r.conv, "agent", r.text, FALSE, r.agent, UNDEF, r.tab)
       IN  /\ log' = Append(log, m)
           /\ sockets' = Fanout(Fanout(sockets, ToCustomer(r.conv), MessageEvent(m)),
                                ToOtherTabs(r.agent, r.tab), MessageEvent(m))
    /\ http' = Respond(r, "reply_resp", TRUE, <<>>)
    /\ last' = Step("createReply", r.tab, NoEvent)
    /\ UNCHANGED <<cust, dash, assigned, storage>>

ServerReply(r) ==
    /\ r \in http /\ r.kind = "reply_req"
    /\ AcceptReply(r)

\* a participant that is not one of the modelled tabs has a message accepted:
\* the same customer on another device, or an agent
OtherSend(u, text) ==
    AcceptPost([NoRequest EXCEPT !.kind = "post_req", !.user = u, !.text = text],
               UNDEF)

OtherReply(conv, agent, text) ==
    AcceptReply([NoRequest EXCEPT !.kind = "reply_req", !.conv = conv,
                                  !.agent = agent, !.text = text])

(***************************************************************************)
(* The channels: what the transport does, and the handler it runs.         *)
(***************************************************************************)
\* the handshake completes: ws.onopen
SockOpen(s) ==
    /\ s \in 1..Len(sockets)
    /\ sockets[s].st = "connecting"
    /\ sockets' = [sockets EXCEPT ![s].st = "open"]
    /\ last' = Step("onopen", sockets[s].owner, NoEvent)
    /\ UNCHANGED <<cust, dash, http, log, assigned, storage>>

\* a frame arrives on an open socket of a customer tab: ws.onmessage
CustSockMessage(s) ==
    /\ s \in 1..Len(sockets)
    /\ sockets[s].owner \in CustTabs
    /\ sockets[s].st = "open"
    /\ sockets[s].inbox # <<>>
    /\ LET c == sockets[s].owner
           data == Head(sockets[s].inbox)
       IN  /\ cust' = [cust EXCEPT ![c].chatHistory =
                                    IF cust[c].mounted THEN CustOnMessage(@, data)
                                                       ELSE @]
           /\ last' = StepOn("onmessage", c, data, cust[c].chatHistory)
    /\ sockets' = [sockets EXCEPT ![s].inbox = Tail(@)]
    /\ UNCHANGED <<dash, http, log, assigned, storage>>

\* (history) the view shows the messages of the history, one for one
SameMessages(view, hist) ==
    /\ Len(view) = Len(hist)
    /\ \A i \in 1..Len(view) :
          view[i].sender = hist[i].sender /\ view[i].text = hist[i].text

\* the close codes ws.onclose can see: the transport failed (1006), or the
\* closing handshake that close() started completed, with the status of the
\* peer's Close frame (1000) or with none (1005)
CloseCodes(st) == IF st = "closing" THEN {1000, 1005} ELSE {1006}

\* the socket of a customer tab is closed: ws.onclose
CustSockClose(s, code) ==
    /\ s \in 1..Len(sockets)
    /\ sockets[s].owner \in CustTabs
    /\ sockets[s].st # "closed"
    /\ code \in CloseCodes(sockets[s].st)
    /\ sockets' = [sockets EXCEPT ![s].st = "closed", ![s].inbox = <<>>]
    /\ LET c == sockets[s].owner
           n == CustOnClose(cust[c], code, sockets[s].clo)
           \* setTimeout ran: the timer of the handler's result is a new one
           scheduled == n.reconnectTimeout.set /\ n.reconnectTimeout.by = NoSock
       IN  cust' = [cust EXCEPT
                ![c] = [n EXCEPT
                          !.reconnectTimeout.by = IF scheduled THEN s ELSE @,
                          !.timers = IF scheduled THEN @ \cup {s} ELSE @,
                          !.inSyncAtDrop =
                              IF s = cust[c].ws /\ sockets[s].st = "open"
                              THEN SameMessages(cust[c].chatHistory,
                                                HistoryOf(ConvOf(cust[c].userId)))
                              ELSE @]]
    /\ last' = StepOn("onclose", sockets[s].owner, NoEvent,
                      [code |-> code, sock |-> s,
                       timer |-> cust[sockets[s].owner].reconnectTimeout])
    /\ UNCHANGED <<dash, http, log, assigned, storage>>

(***************************************************************************)
(* AgentDashboard: state, and the updaters of ws.onmessage.                *)
(***************************************************************************)
InitDash ==
    [mounted |-> FALSE, agentId |-> NULL, agentName |-> "",
     showAgentNameInput |-> TRUE, loadingConversations |-> TRUE,
     showCustomerOverview |-> FALSE, replyMessage |-> "",
     activeConversations |-> <<>>, selectedConversationId |-> NULL,
     selectedConversationMessages |-> <<>>, aiSuggestions |-> NULL,
     alert |-> NULL, ws |-> NoSock, reconnectTimeout |-> NoTimer, timers |-> {},
     \* the timeouts of handleSendPrewrittenResponse that have not fired yet, in
     \* the order they were set: what the handleReplySend each one calls
     \* captured, and (history) the response shown at the click
     sendTimers |-> <<>>,
     sends |-> 0,
     claims |-> 0, releases |-> 0, logins |-> 0,
     \* (history) whether the last claim of this dashboard was granted
     claimed |-> UNDEF,
     \* (history) per conversation, the agent named by the last assignment
     \* event this dashboard processed
     heard |-> [conv \in Convs |-> UNDEF]]

\* a stored message as an item of the history a dashboard fetches
\* (conv, on every entry of a dashboard view, is history: the conversation of
\* the message the entry shows)
DashHistoryEntry(m) ==
    [text |-> m.text, sender |-> m.sender, timestamp |-> m.timestamp,
     image_url |-> m.image_url, ocr_text |-> m.ocr_text, analysis |-> m.analysis,
     conv |-> m.conv]

DashHistoryOf(conv) ==
    LET Sel(m) == m.conv = conv
    IN  [i \in 1..Len(SelectSeq(log, Sel)) |->
            DashHistoryEntry(SelectSeq(log, Sel)[i])]

\* listActiveConversations: the conversations that exist, with their assignment
ConvSummary(conv) ==
    LET Sel(m) == m.conv = conv /\ m.sender = "customer"
        own == SelectSeq(log, Sel)
    IN  [id |-> conv, user_id |-> CHOOSE u \in Users : ConvOf(u) = conv,
         assigned_agent_id |-> assigned[conv],
         assigned_agent_name |-> IF assigned[conv] = NULL THEN NULL
                                 ELSE AgentNameOf(assigned[conv]),
         last_message_summary |-> own[Len(own)].text, status |-> "open"]

ActiveConversations ==
    LET Exists(conv) == \E i \in 1..Len(log) : log[i].conv = conv
    IN  IF Exists("c1")
        THEN IF Exists("c2") THEN <<ConvSummary("c1"), ConvSummary("c2")>>
                             ELSE <<ConvSummary("c1")>>
        ELSE IF Exists("c2") THEN <<ConvSummary("c2")>> ELSE <<>>

HasConv(list, conv) == \E i \in 1..Len(list) : list[i].id = conv

\* customer_message_analysis: the conversation list
ListOnAnalysisAppend(list, data) ==
    Append(list, [id |-> data.conversation_id, user_id |-> data.user_id,
                  assigned_agent_id |-> NULL, assigned_agent_name |-> NULL,
                  last_message_summary |-> data.text, status |-> "open"])

ListOnAnalysis(list, data) ==
    IF HasConv(list, data.conversation_id)
    THEN [i \in 1..Len(list) |->
             IF list[i].id = data.conversation_id
             THEN [list[i] EXCEPT !.last_message_summary = data.text]
             ELSE list[i]]
    ELSE Append(list, [id |-> data.conversation_id, user_id |-> data.user_id,
                       assigned_agent_id |-> NULL, assigned_agent_name |-> NULL,
                       last_message_summary |-> data.text, status |-> "open"])

\* conversation_assigned (the agent and the name of the event) and
\* conversation_unassigned (NULL and NULL)
ListOnAssignmentDrop(list, conv, agent, name) ==
    LET Other(e) == e.id # conv IN SelectSeq(list, Other)

ListOnAssignmentIfFree(list, conv, agent, name) ==
    [i \in 1..Len(list) |->
        IF list[i].id = conv /\ (list[i].assigned_agent_id = NULL \/ agent = NULL)
        THEN [list[i] EXCEPT !.assigned_agent_id = agent,
                             !.assigned_agent_name = name]
        ELSE list[i]]

ListOnAssignment(list, conv, agent, name) ==
    [i \in 1..Len(list) |->
        IF list[i].id = conv THEN [list[i] EXCEPT !.assigned_agent_id = agent,
                                                  !.assigned_agent_name = name]
                             ELSE list[i]]

\* the entry appended for the customer message of a customer_message_analysis
AnalysisEntry(data) ==
    [text |-> data.text, sender |-> "customer", timestamp |-> LocalTime,
     image_url |-> data.image_url, ocr_text |-> data.ocr_text,
     analysis |-> data.analysis, conv |-> data.conversation_id]

\* the entry appended for an agent_chat_message of another agent
ReplyEntry(data) ==
    [text |-> data.text, sender |-> data.sender, timestamp |-> data.timestamp,
     image_url |-> UNDEF, ocr_text |-> UNDEF, analysis |-> UNDEF,
     conv |-> data.conversation_id]

\* the entry handleReplySend appends once the request has succeeded
OwnReplyEntry(text, conv) ==
    [text |-> text, sender |-> "agent", timestamp |-> LocalTime,
     image_url |-> UNDEF, ocr_text |-> UNDEF, analysis |-> UNDEF, conv |-> conv]

\* data.analysis || null: what the suggestions card is given
SuggestionsDefault(data) == IF data.analysis = UNDEF THEN "default" ELSE data.analysis

SuggestionsOf(data) == IF data.analysis = UNDEF THEN NULL ELSE data.analysis

\* ws.onmessage of a dashboard socket created by the render that captured clo
DashOnMessage(ds, data, clo) ==
    IF data.type = "customer_message_analysis"
    THEN LET ds1 == [ds EXCEPT !.activeConversations = ListOnAnalysis(@, data)]
         IN  IF data.conversation_id = clo.selected
             THEN [ds1 EXCEPT !.selectedConversationMessages =
                                  Append(@, AnalysisEntry(data)),
                              !.aiSuggestions = SuggestionsOf(data)]
             ELSE ds1
    ELSE IF data.type = "agent_chat_message"
    THEN IF data.agent_id = clo.agentId THEN ds
         ELSE IF data.conversation_id = clo.selected
              THEN [ds EXCEPT !.selectedConversationMessages =
                                  Append(@, ReplyEntry(data))]
              ELSE ds
    ELSE IF data.type = "conversation_assigned"
    THEN [ds EXCEPT !.activeConversations =
                        ListOnAssignment(@, data.conversation_id, data.agent_id,
                                         data.agent_name),
                    !.heard[data.conversation_id] = data.agent_id]
    ELSE IF data.type = "conversation_unassigned"
    THEN [ds EXCEPT !.activeConversations =
                        ListOnAssignment(@, data.conversation_id, NULL, NULL),
                    !.heard[data.conversation_id] = NULL]
    ELSE ds

(***************************************************************************)
(* AgentDashboard: connectWebSocket and the effect that owns the channel.  *)
(***************************************************************************)
\* the closure of the current render of a dashboard
DashClosureOf(ds) ==
    [NoClosure EXCEPT !.agentId = ds.agentId, !.selected = ds.selectedConversationId]

\* connectWebSocket as created by the render that captured clo
DashConnect(ds, socks, me, clo) ==
    LET ds1 == [ds EXCEPT !.reconnectTimeout = NoTimer,
                          !.timers = @ \ {ds.reconnectTimeout.by}]
    IN  IF clo.agentId = NULL
        THEN [c |-> [ds1 EXCEPT !.ws = NoSock], s |-> CloseSock(socks, ds1.ws)]
        ELSE IF ds1.ws = NoSock \/ IsClosedOrClosing(socks, ds1.ws)
             THEN [c |-> [ds1 EXCEPT !.ws = Len(socks) + 1],
                   s |-> Append(socks, NewSocket(me, clo.agentId, clo))]
             ELSE [c |-> ds1, s |-> socks]

\* the cleanup of the WebSocket lifecycle effect
DashCleanup(ds, socks) ==
    [c |-> [ds EXCEPT !.ws = NoSock, !.reconnectTimeout = NoTimer,
                      !.timers = @ \ {ds.reconnectTimeout.by}],
     s |-> IF ds.ws # NoSock /\ socks[ds.ws].st = "open"
           THEN CloseSock(socks, ds.ws) ELSE socks]

\* the lifecycle effect re-run after a render that changed its dependencies
DashEffect(ds, socks, me) ==
    LET cl == DashCleanup(ds, socks)
    IN  IF ~ds.showAgentNameInput /\ ds.agentId # NULL
        THEN DashConnect(cl.c, cl.s, me, DashClosureOf(ds))
        ELSE cl

\* ws.onclose of a dashboard socket
DashOnClose(ds, code, clo) ==
    IF code # 1000 /\ ~ds.reconnectTimeout.set
    THEN [ds EXCEPT !.reconnectTimeout = Timer(clo)]
    ELSE ds

(***************************************************************************)
(* AgentDashboard: handlers.                                               *)
(***************************************************************************)
\* the entry of conv in a conversation list (conv is in the list)
ConvEntry(list, conv) == list[CHOOSE i \in 1..Len(list) : list[i].id = conv]

\* the render shows the dashboard: neither the name form nor the loading
\* notice is returned in its place
Rendered(ds) == ~ds.showAgentNameInput /\ ~ds.loadingConversations

\* the render shows the conversation list and the chat view, not the
\* customer overview
ChatShown(ds) == Rendered(ds) /\ ~ds.showCustomerOverview

\* the assigned-agent tag of a conversation of the list
AssignedTag(ds, conv) ==
    LET e == ConvEntry(ds.activeConversations, conv)
    IN  IF Truthy(e.assigned_agent_name)
        THEN IF e.assigned_agent_id = ds.agentId THEN "Assigned to YOU"
                                                 ELSE "Assigned to another"
        ELSE "none"

\* the conversation-actions of a conversation of the list: the button shown
ActionShownAlways(ds, conv) ==
    LET e == ConvEntry(ds.activeConversations, conv)
    IN  IF ~Truthy(e.assigned_agent_id) THEN "Claim" ELSE "Release"

ActionShown(ds, conv) ==
    LET e == ConvEntry(ds.activeConversations, conv)
    IN  IF ~Truthy(e.assigned_agent_id) THEN "Claim"
        ELSE IF e.assigned_agent_id = ds.agentId THEN "Release"
        ELSE "none"

\* handleAgentNameSubmit (a new agent identifier), and the effects of the
\* render that follows: the channel and the list fetch
DashAgentNameSubmit(a, agent) ==
    /\ dash[a].mounted
    /\ dash[a].showAgentNameInput
    /\ dash[a].logins < MaxLogins
    /\ trim(AgentNameInput(agent)) # ""
    /\ LET ds == [dash[a] EXCEPT !.agentId = agent,
                                 !.agentName = trim(AgentNameInput(agent)),
                                 !.showAgentNameInput = FALSE,
                                 !.loadingConversations = TRUE,
                                 !.logins = @ + 1]
           r == DashEffect(ds, sockets, a)
       IN  /\ Len(r.s) <= MaxSocks
           /\ dash' = [dash EXCEPT ![a] = r.c]
           /\ sockets' = r.s
    /\ storage' = [storage EXCEPT ![a].agent_id = agent,
                                  ![a].agent_name = trim(AgentNameInput(agent))]
    /\ http' = http \cup {[NoRequest EXCEPT !.kind = "list_req", !.tab = a]}
    /\ last' = Step("handleAgentNameSubmit", a, NoEvent)
    /\ UNCHANGED <<cust, log, assigned>>

\* handleSwitchAgent, and the effects of the render that follows
DashSwitchAgent(a) ==
    /\ dash[a].mounted
    /\ Rendered(dash[a])
    /\ LET wasOpen == dash[a].ws # NoSock /\ sockets[dash[a].ws].st = "open"
           ds == [dash[a] EXCEPT
                     !.agentId = NULL, !.agentName = "",
                     !.showAgentNameInput = TRUE,
                     !.loadingConversations = FALSE,
                     !.showCustomerOverview = FALSE,
                     !.replyMessage = "",
                     !.activeConversations = <<>>,
                     !.selectedConversationId = NULL,
                     !.selectedConversationMessages = <<>>,
                     !.aiSuggestions = NULL,
                     !.ws = IF wasOpen THEN NoSock ELSE @,
                     !.reconnectTimeout = NoTimer,
                     !.timers = @ \ {dash[a].reconnectTimeout.by}]
           r == DashEffect(ds, IF wasOpen THEN CloseSock(sockets, dash[a].ws)
                                          ELSE sockets, a)
       IN  /\ dash' = [dash EXCEPT ![a] = r.c]
           /\ sockets' = r.s
    /\ storage' = [storage EXCEPT ![a].agent_id = NULL, ![a].agent_name = NULL]
    /\ last' = Step("handleSwitchAgent", a, NoEvent)
    /\ UNCHANGED <<cust, http, log, assigned>>

\* toggleCustomerOverview, and the effects of the render that follows: a
\* changed selection changes connectWebSocket (the data of the overview table
\* is not part of the model)
DashToggleOverview(a) ==
    /\ dash[a].mounted
    /\ Rendered(dash[a])
    /\ LET ds == [dash[a] EXCEPT !.showCustomerOverview = ~@,
                                 !.selectedConversationId = NULL,
                                 !.selectedConversationMessages = <<>>,
                                 !.aiSuggestions = NULL]
           r == IF dash[a].selectedConversationId = NULL
                THEN [c |-> ds, s |-> sockets]
                ELSE DashEffect(ds, sockets, a)
       IN  /\ Len(r.s) <= MaxSocks
           /\ dash' = [dash EXCEPT ![a] = r.c]
           /\ sockets' = r.s
    /\ last' = Step("toggleCustomerOverview", a, NoEvent)
    /\ UNCHANGED <<cust, http, log, assigned, storage>>

\* selectConversation up to the request, and the effects of the render that
\* follows: a changed selection changes connectWebSocket
DashSelect(a, conv) ==
    /\ dash[a].mounted
    /\ ChatShown(dash[a])
    /\ HasConv(dash[a].activeConversations, conv)
    /\ LET ds == [dash[a] EXCEPT !.selectedConversationId = conv,
                                 !.aiSuggestions = NULL]
           r == IF conv = dash[a].selectedConversationId
                THEN [c |-> ds, s |-> sockets]
                ELSE DashEffect(ds, sockets, a)
       IN  /\ Len(r.s) <= MaxSocks
           /\ dash' = [dash EXCEPT ![a] = r.c]
           /\ sockets' = r.s
    /\ http' = http \cup {[NoRequest EXCEPT !.kind = "hist_req", !.tab = a,
                                             !.conv = conv]}
    /\ last' = Step("selectConversation", a, NoEvent)
    /\ UNCHANGED <<cust, log, assigned, storage>>

\* the component unmounts: the cleanup of the lifecycle effect
DashUnmount(a) ==
    /\ dash[a].mounted
    /\ LET r == DashCleanup(dash[a], sockets)
       IN  /\ dash' = [dash EXCEPT ![a] = [r.c EXCEPT !.mounted = FALSE]]
           /\ sockets' = r.s
    /\ last' = Step("unmount", a, NoEvent)
    /\ UNCHANGED <<cust, http, log, assigned, storage>>

\* the reconnect timer fires: connectWebSocket, as captured by the timer
DashTimerFire(a) ==
    /\ \E t \in dash[a].timers :
          LET r == DashConnect([dash[a] EXCEPT !.timers = @ \ {t}], sockets, a,
                               sockets[t].clo)
          IN  /\ Len(r.s) <= MaxSocks
              /\ dash' = [dash EXCEPT ![a] = r.c]
              /\ sockets' = r.s
    /\ last' = Step("reconnect", a, NoEvent)
    /\ UNCHANGED <<cust, http, log, assigned, storage>>

\* the socket of a dashboard tab is closed: ws.onclose
DashSockClose(s, code) ==
    /\ s \in 1..Len(sockets)
    /\ sockets[s].owner \in AgentTabs
    /\ sockets[s].st # "closed"
    /\ code \in CloseCodes(sockets[s].st)
    /\ sockets' = [sockets EXCEPT ![s].st = "closed", ![s].inbox = <<>>]
    /\ LET a == sockets[s].owner
           n == DashOnClose(dash[a], code, sockets[s].clo)
           \* setTimeout ran: the timer of the handler's result is a new one
           scheduled == n.reconnectTimeout.set /\ n.reconnectTimeout.by = NoSock
       IN  dash' = [dash EXCEPT
                ![a] = [n EXCEPT
                          !.reconnectTimeout.by = IF scheduled THEN s ELSE @,
                          !.timers = IF scheduled THEN @ \cup {s} ELSE @]]
    /\ last' = StepOn("onclose", sockets[s].owner, NoEvent,
                      [code |-> code, sock |-> s,
                       timer |-> dash[sockets[s].owner].reconnectTimeout])
    /\ UNCHANGED <<cust, http, log, assigned, storage>>

\* fetchActiveConversations after the request: the response (or the failure)
DashListDone(a, r) ==
    /\ r \in http /\ r.kind = "list_resp" /\ r.tab = a
    /\ http' = http \ {r}
    /\ dash' = [dash EXCEPT ![a].activeConversations = IF r.ok THEN r.data ELSE <<>>,
                            ![a].loadingConversations = FALSE]
    /\ last' = Step("fetchActiveConversations", a, NoEvent)
    /\ UNCHANGED <<cust, sockets, log, assigned, storage>>

\* selectConversation after the request: the response (or the failure)
DashHistoryDone(a, r) ==
    /\ r \in http /\ r.kind = "hist_resp" /\ r.tab = a
    /\ http' = http \ {r}
    /\ LET Sel(m) == m.sender = "customer" /\ m.analysis # UNDEF
           withAnalysis == SelectSeq(r.data, Sel)
       IN  dash' = [dash EXCEPT
                ![a].selectedConversationMessages = IF r.ok THEN r.data ELSE <<>>,
                ![a].aiSuggestions =
                    IF ~r.ok THEN @
                    ELSE IF withAnalysis = <<>> THEN NULL
                    ELSE withAnalysis[Len(withAnalysis)].analysis]
    /\ last' = Step("selectConversation", a, NoEvent)
    /\ UNCHANGED <<cust, sockets, log, assigned, storage>>

\* handleReplySend up to the request
DashReply(a, text) ==
    /\ ChatShown(dash[a])
    /\ dash[a].selectedConversationId # NULL
    /\ Truthy(dash[a].agentId) /\ Truthy(dash[a].agentName)
    /\ dash[a].sends < MaxSends
    /\ ~\E r \in http : r.tab = a /\ r.kind \in {"reply_req", "reply_resp"}
    /\ dash' = [dash EXCEPT ![a].sends = @ + 1]
    /\ http' = http \cup {[NoRequest EXCEPT !.kind = "reply_req", !.tab = a,
                                             !.conv = dash[a].selectedConversationId,
                                             !.agent = dash[a].agentId,
                                             !.text = text]}
    /\ last' = Step("handleReplySend", a, NoEvent)
    /\ UNCHANGED <<cust, sockets, log, assigned, storage>>

\* handleReplySend after the request: the append, or the alert
DashReplyDone(a, r) ==
    /\ r \in http /\ r.kind = "reply_resp" /\ r.tab = a
    /\ http' = http \ {r}
    /\ dash' = [dash EXCEPT
            ![a].replyMessage = IF r.ok THEN "" ELSE @,
            ![a].selectedConversationMessages =
                IF r.ok THEN Append(@, OwnReplyEntry(r.text, r.conv)) ELSE @,
            ![a].alert = IF r.ok THEN @ ELSE "Failed to send message"]
    /\ last' = StepOn(IF r.ok THEN "replyOk" ELSE "replyFailed", a, NoEvent,
                      dash[a].selectedConversationMessages)
    /\ UNCHANGED <<cust, sockets, log, assigned, storage>>

\* what a render's handleReplySend captured
ReplyClosure(ds) ==
    [replyMessage |-> ds.replyMessage, selected |-> ds.selectedConversationId,
     agentId |-> ds.agentId, agentName |-> ds.agentName]

\* handleReplySend of the render that captured clo, up to the request: the
\* alert of an early return, or the request
ReplySend(ds, me, clo) ==
    IF trim(clo.replyMessage) = "" \/ ~Truthy(clo.selected)
    THEN [c |-> [ds EXCEPT !.alert = "Please type a message and select a conversation."],
          reqs |-> {}]
    ELSE IF ~Truthy(clo.agentId) \/ ~Truthy(clo.agentName)
    THEN [c |-> [ds EXCEPT !.alert = "Agent identity not set."], reqs |-> {}]
    ELSE [c |-> [ds EXCEPT !.sends = @ + 1],
          reqs |-> {[NoRequest EXCEPT !.kind = "reply_req", !.tab = me,
                                      !.conv = clo.selected,
                                      !.agent = clo.agentId,
                                      !.text = clo.replyMessage]}]

\* the requests of a tab for a reply that wait for the authority
RepliesInFlight(a) == {r \in http : r.kind = "reply_req" /\ r.tab = a}

\* the reply input: onChange
DashType(a, text) ==
    /\ dash[a].mounted
    /\ ChatShown(dash[a])
    /\ dash[a].selectedConversationId # NULL
    /\ text # dash[a].replyMessage
    /\ dash' = [dash EXCEPT ![a].replyMessage = text]
    /\ last' = Step("onChange", a, NoEvent)
    /\ UNCHANGED <<cust, sockets, http, log, assigned, storage>>

\* the Send Reply button, enabled while the input holds more than blanks:
\* handleReplySend of the current render, up to the request
DashReplyClick(a) ==
    /\ dash[a].mounted
    /\ ChatShown(dash[a])
    /\ dash[a].selectedConversationId # NULL
    /\ trim(dash[a].replyMessage) # ""
    /\ dash[a].sends < MaxSends
    /\ LET r == ReplySend(dash[a], a, ReplyClosure(dash[a]))
       IN  /\ dash' = [dash EXCEPT ![a] = r.c]
           /\ http' = http \cup r.reqs
    /\ last' = StepOn("replyClick", a, NoEvent,
                      [shown |-> dash[a].replyMessage,
                       conv |-> dash[a].selectedConversationId,
                       reqs |-> RepliesInFlight(a)])
    /\ UNCHANGED <<cust, sockets, log, assigned, storage>>

\* aiSuggestions?.suggestions?.pre_written_response: the analysis of the
\* model carries one response
PrewrittenOf(sugg) == IF sugg = "analysis" THEN "Welcome" ELSE UNDEF

\* handleSendPrewrittenResponse: the Send button under the pre-written
\* response, rendered while there is one
DashSendPrewritten(a) ==
    /\ dash[a].mounted
    /\ ChatShown(dash[a])
    /\ Truthy(PrewrittenOf(dash[a].aiSuggestions))
    /\ Len(dash[a].sendTimers) < MaxSends
    /\ dash' = [dash EXCEPT ![a] =
            IF Truthy(dash[a].selectedConversationId)
            THEN [@ EXCEPT !.replyMessage = PrewrittenOf(dash[a].aiSuggestions),
                           !.sendTimers =
                               Append(@, [clo |-> ReplyClosure(dash[a]),
                                          shown |-> PrewrittenOf(dash[a].aiSuggestions)])]
            ELSE [@ EXCEPT !.alert = "No pre-written response available to send."]]
    /\ last' = Step("handleSendPrewrittenResponse", a, NoEvent)
    /\ UNCHANGED <<cust, sockets, http, log, assigned, storage>>

\* the timeout of handleSendPrewrittenResponse fires: the handleReplySend of
\* the render in which the button was clicked, up to the request
DashPrewrittenFire(a) ==
    /\ dash[a].sendTimers # <<>>
    /\ dash[a].sends < MaxSends
    /\ LET tm == Head(dash[a].sendTimers)
           r == ReplySend([dash[a] EXCEPT !.sendTimers = Tail(@)], a, tm.clo)
       IN  /\ dash' = [dash EXCEPT ![a] = r.c]
           /\ http' = http \cup r.reqs
           /\ last' = StepOn("prewrittenTimeout", a, NoEvent,
                             [shown |-> tm.shown, conv |-> tm.clo.selected,
                              reqs |-> RepliesInFlight(a)])
    /\ UNCHANGED <<cust, sockets, log, assigned, storage>>

\* handleClaimConversation up to the request; the Claim button is rendered on
\* the conversations the list shows unassigned
DashClaim(a, conv) ==
    /\ ChatShown(dash[a])
    /\ HasConv(dash[a].activeConversations, conv)
    /\ ActionShown(dash[a], conv) = "Claim"
    /\ Truthy(dash[a].agentId) /\ Truthy(dash[a].agentName)
    /\ ~\E r \in http : r.tab = a /\ r.kind \in {"claim_req", "claim_resp"}
    /\ dash[a].claims < MaxClaims
    /\ dash' = [dash EXCEPT ![a].claims = @ + 1]
    /\ http' = http \cup {[NoRequest EXCEPT !.kind = "claim_req", !.tab = a,
                                             !.conv = conv,
                                             !.agent = dash[a].agentId,
                                             !.name = dash[a].agentName]}
    /\ last' = StepOn("handleClaimConversation", a, NoEvent,
                      dash[a].activeConversations)
    /\ UNCHANGED <<cust, sockets, log, assigned, storage>>

\* what handleClaimConversation does with the response
ClaimDoneEager(ds, ok) ==
    [ds EXCEPT !.alert = IF ok THEN @ ELSE "Failed to claim conversation",
               !.claimed = IF ok THEN "granted" ELSE "refused",
               !.activeConversations =
                   [i \in 1..Len(@) |-> [@[i] EXCEPT !.assigned_agent_id = ds.agentId]]]

ClaimDoneSilent(ds, ok) ==
    [ds EXCEPT !.claimed = IF ok THEN "granted" ELSE "refused"]

ClaimDone(ds, ok) ==
    [ds EXCEPT !.alert = IF ok THEN @ ELSE "Failed to claim conversation",
               !.claimed = IF ok THEN "granted" ELSE "refused"]

\* handleClaimConversation after the request
DashClaimDone(a, r) ==
    /\ r \in http /\ r.kind = "claim_resp" /\ r.tab = a
    /\ http' = http \ {r}
    /\ dash' = [dash EXCEPT ![a] = ClaimDone(@, r.ok)]
    /\ last' = StepOn(IF r.ok THEN "claimOk" ELSE "claimFailed", a, NoEvent,
                      dash[a].activeConversations)
    /\ UNCHANGED <<cust, sockets, log, assigned, storage>>

\* handleReleaseConversation up to the request; the Release button is rendered
\* on the conversations the list shows assigned to this agent
DashRelease(a, conv) ==
    /\ ChatShown(dash[a])
    /\ HasConv(dash[a].activeConversations, conv)
    /\ ActionShown(dash[a], conv) = "Release"
    /\ ~\E r \in http : r.tab = a /\ r.kind \in {"release_req", "release_resp"}
    /\ dash[a].releases < MaxClaims
    /\ dash' = [dash EXCEPT ![a].releases = @ + 1]
    /\ http' = http \cup {[NoRequest EXCEPT !.kind = "release_req", !.tab = a,
                                             !.conv = conv]}
    /\ last' = StepOn("handleReleaseConversation", a, NoEvent,
                      dash[a].activeConversations)
    /\ UNCHANGED <<cust, sockets, log, assigned, storage>>

\* handleReleaseConversation after the request
DashReleaseDone(a, r) ==
    /\ r \in http /\ r.kind = "release_resp" /\ r.tab = a
    /\ http' = http \ {r}
    /\ dash' = [dash EXCEPT ![a].alert =
                    IF r.ok THEN @ ELSE "Failed to release conversation"]
    /\ last' = StepOn(IF r.ok THEN "releaseOk" ELSE "releaseFailed", a, NoEvent,
                      dash[a].activeConversations)
    /\ UNCHANGED <<cust, sockets, log, assigned, storage>>

\* a frame arrives on an open socket of a dashboard tab: ws.onmessage
DashSockMessage(s) ==
    /\ s \in 1..Len(sockets)
    /\ sockets[s].owner \in AgentTabs
    /\ sockets[s].st = "open"
    /\ sockets[s].inbox # <<>>
    /\ LET a == sockets[s].owner
           data == Head(sockets[s].inbox)
       IN  /\ dash' = [dash EXCEPT ![a] = DashOnMessage(@, data, sockets[s].clo)]
           /\ last' = StepOn("onmessage", a, data,
                             [list |-> dash[a].activeConversations,
                              msgs |-> dash[a].selectedConversationMessages,
                              sugg |-> dash[a].aiSuggestions,
                              heard |-> dash[a].heard])
    /\ sockets' = [sockets EXCEPT ![s].inbox = Tail(@)]
    /\ UNCHANGED <<cust, http, log, assigned, storage>>

(***************************************************************************)
(* The authority: assignment, and what the dashboards fetch.               *)
(***************************************************************************)
\* every agent channel
ToAllAgents == {s \in 1..Len(sockets) : sockets[s].owner \in AgentTabs}

\* setAssignment(conversation, agent, expected prior NULL): the compare-and-set
CanClaimFresh(conv, agent) == assigned[conv] = NULL

CanClaim(conv, agent) == assigned[conv] \in {NULL, agent}

\* claim(conversation, agent)
AcceptClaim(r) ==
    /\ IF CanClaim(r.conv, r.agent)
       THEN /\ assigned' = [assigned EXCEPT ![r.conv] = r.agent]
            /\ sockets' = Fanout(sockets, ToAllAgents,
                                 AssignmentEvent(r.conv, r.agent, r.name,
                                                 "conversation_assigned"))
            /\ http' = Respond(r, "claim_resp", TRUE, <<>>)
       ELSE /\ http' = Respond(r, "claim_resp", FALSE, <<>>)
            /\ UNCHANGED <<assigned, sockets>>
    /\ last' = StepOn("claim", r.tab, NoEvent,
                      [conv |-> r.conv, agent |-> r.agent, was |-> assigned[r.conv],
                       ok |-> CanClaim(r.conv, r.agent)])
    /\ UNCHANGED <<cust, dash, log, storage>>

\* POST /assign-conversation
ServerClaim(r) ==
    /\ r \in http /\ r.kind = "claim_req"
    /\ AcceptClaim(r)

\* release(conversation): a success from every state; whether the release of
\* an unassigned conversation emits conversation_unassigned is left open
AcceptRelease(r, emit) ==
    /\ assigned' = [assigned EXCEPT ![r.conv] = NULL]
    /\ sockets' = IF assigned[r.conv] # NULL \/ emit
                  THEN Fanout(sockets, ToAllAgents,
                              AssignmentEvent(r.conv, NULL, NULL,
                                              "conversation_unassigned"))
                  ELSE sockets
    /\ http' = Respond(r, "release_resp", TRUE, <<>>)
    /\ last' = StepOn("release", r.tab, NoEvent,
                      [conv |-> r.conv, agent |-> NULL, was |-> assigned[r.conv],
                       ok |-> TRUE])
    /\ UNCHANGED <<cust, dash, log, storage>>

\* POST /unassign-conversation
ServerRelease(r, emit) ==
    /\ r \in http /\ r.kind = "release_req"
    /\ AcceptRelease(r, emit)

\* an agent on a dashboard that is not one of the modelled tabs claims or
\* releases, while the channels have room for the event
InboxRoom == \A s \in 1..Len(sockets) : Len(sockets[s].inbox) < MaxInbox

OtherClaim(conv, agent) ==
    /\ InboxRoom
    /\ AcceptClaim([NoRequest EXCEPT !.kind = "claim_req", !.conv = conv,
                                     !.agent = agent,
                                     !.name = AgentNameOf(agent)])

OtherRelease(conv, emit) ==
    /\ InboxRoom
    /\ AcceptRelease([NoRequest EXCEPT !.kind = "release_req", !.conv = conv],
                     emit)

\* GET /conversations/active: listActiveConversations
ServerList(r) ==
    /\ r \in http /\ r.kind = "list_req"
    /\ http' = Respond(r, "list_resp", TRUE, ActiveConversations)
    /\ last' = Step("listActiveConversations", r.tab, NoEvent)
    /\ UNCHANGED <<cust, dash, sockets, log, assigned, storage>>

\* GET /chat-history/conversation/{id}: getConversationHistory
ServerHistory(r) ==
    /\ r \in http /\ r.kind = "hist_req"
    /\ http' = Respond(r, "hist_resp", TRUE, DashHistoryOf(r.conv))
    /\ last' = Step("getConversationHistory", r.tab, NoEvent)
    /\ UNCHANGED <<cust, dash, sockets, log, assigned, storage>>

(***************************************************************************)
(* Specifications.                                                         *)
(***************************************************************************)
\* the items of a browser in which a customer, or an agent, was identified
CustomerItems(u, name) ==
    [NoItems EXCEPT !.customer_user_id = u, !.customer_user_name = name]
AgentItems(agent) ==
    [NoItems EXCEPT !.agent_id = agent, !.agent_name = AgentNameOf(agent)]

Init ==
    /\ cust = [c \in CustTabs |-> InitCust]
    /\ dash = [a \in AgentTabs |-> InitDash]
    /\ sockets = <<>>
    /\ http = {}
    /\ log = <<>>
    /\ assigned = [conv \in Convs |-> NULL]
    /\ storage = [tab \in Tabs |-> NoItems]
    /\ last = Step("init", NULL, NoEvent)

\* One customer tab whose identity was restored from local storage at mount:
\* the history fetch is in flight and the channel is connecting.  With it the
\* authority and the other participants of the customer's conversation.
ChatTab == "ct1"
ChatUser == "u1"
ChatName == trim(CustomerNameInput(ChatUser))
SendInputs == {<<"Hello", FALSE>>, <<"Bye", TRUE>>}

InitChat ==
    /\ cust = [c \in CustTabs |->
                 IF c = ChatTab
                 THEN [InitCust EXCEPT !.mounted = TRUE,
                                       !.userId = ChatUser, !.userName = ChatName,
                                       !.isAuthenticated = TRUE,
                                       !.showNameInputScreen = FALSE, !.ws = 1,
                                       !.identitySet = [userId |-> ChatUser,
                                                        userName |-> ChatName]]
                 ELSE InitCust]
    /\ dash = [a \in AgentTabs |-> InitDash]
    /\ sockets = <<NewSocket(ChatTab, ChatUser,
                             [NoClosure EXCEPT !.isAuthenticated = TRUE,
                                               !.userId = ChatUser, !.show = FALSE])>>
    /\ http = {[NoRequest EXCEPT !.kind = "fetch_req", !.tab = ChatTab,
                                  !.user = ChatUser]}
    /\ log = <<>>
    /\ assigned = [conv \in Convs |-> NULL]
    /\ storage = [tab \in Tabs |->
                    IF tab = ChatTab THEN CustomerItems(ChatUser, ChatName)
                                     ELSE NoItems]
    /\ last = Step("init", NULL, NoEvent)

NextChat ==
    \/ \E in \in SendInputs : CustSend(ChatTab, in[1], in[2])
    \/ \E r \in http : CustSendDone(ChatTab, r)
    \/ \E r \in http : CustFetchDone(ChatTab, r)
    \/ \E r \in http : ServerPost(r, UNDEF)
    \/ \E r \in http : ServerPostFail(r)
    \/ \E r \in http : ServerFetch(r)
    \/ \E r \in http : ServerFetchFail(r)
    \/ OtherSend(ChatUser, "Hello")
    \/ OtherReply(ConvOf(ChatUser), "A", "Hello")
    \/ \E s \in 1..Len(sockets) : SockOpen(s)
    \/ \E s \in 1..Len(sockets) : CustSockMessage(s)

SpecChat == InitChat /\ [][NextChat]_vars

\* The same tab, with the transport free to drop the channel and the
\* reconnect timer free to fire.
NextConn ==
    \/ CustSend(ChatTab, "Hello", FALSE)
    \/ \E r \in http : CustSendDone(ChatTab, r)
    \/ \E r \in http : CustFetchDone(ChatTab, r)
    \/ CustTimerFire(ChatTab)
    \/ \E r \in http : ServerPost(r, UNDEF)
    \/ \E r \in http : ServerFetch(r)
    \/ OtherReply(ConvOf(ChatUser), "A", "Hello")
    \/ \E s \in 1..Len(sockets) : SockOpen(s)
    \/ \E s \in 1..Len(sockets) : CustSockMessage(s)
    \/ \E s \in 1..Len(sockets) : \E code \in CloseCodes(sockets[s].st) :
           CustSockClose(s, code)

SpecConn == InitChat /\ [][NextConn]_vars

\* the closure of the render of a dashboard that connects its socket
DashClosure(agent, selected) ==
    [NoClosure EXCEPT !.agentId = agent, !.selected = selected]

\* a dashboard whose agent was restored from local storage at mount: the
\* channel is connecting
MountedDash(agent, s, selected) ==
    [InitDash EXCEPT !.mounted = TRUE,
                     !.agentId = agent, !.agentName = AgentNameOf(agent),
                     !.showAgentNameInput = FALSE, !.ws = s,
                     !.selectedConversationId = selected]

\* Two dashboards of two agents after mount: the list fetches are in flight
\* and the channels are connecting.  A customer writes; the agents claim.
AgentOf(a) == IF a = "at1" THEN "A" ELSE "B"

InitAssign ==
    /\ cust = [c \in CustTabs |-> InitCust]
    /\ dash = [a \in AgentTabs |->
                 MountedDash(AgentOf(a), IF a = "at1" THEN 1 ELSE 2, NULL)]
    /\ sockets = <<NewSocket("at1", "A", DashClosure("A", NULL)),
                   NewSocket("at2", "B", DashClosure("B", NULL))>>
    /\ http = {[NoRequest EXCEPT !.kind = "list_req", !.tab = a] : a \in AgentTabs}
    /\ log = <<>>
    /\ assigned = [conv \in Convs |-> NULL]
    /\ storage = [tab \in Tabs |->
                    IF tab \in AgentTabs THEN AgentItems(AgentOf(tab)) ELSE NoItems]
    /\ last = Step("init", NULL, NoEvent)

NextAssign ==
    \/ OtherSend(ChatUser, "Hello")
    \/ \E r \in http : ServerList(r)
    \/ \E a \in AgentTabs : \E r \in http : DashListDone(a, r)
    \/ \E a \in AgentTabs : DashClaim(a, ConvOf(ChatUser))
    \/ \E r \in http : ServerClaim(r)
    \/ \E a \in AgentTabs : \E r \in http : DashClaimDone(a, r)
    \/ \E s \in 1..Len(sockets) : SockOpen(s)
    \/ \E s \in 1..Len(sockets) : DashSockMessage(s)

SpecAssign == InitAssign /\ [][NextAssign]_vars

\* Two tabs of one agent (the identity is shared through local storage) with
\* the conversation of a customer's first message selected: the history
\* fetches are in flight and the channels that captured the selection are
\* connecting.
FirstMessage ==
    [id |-> MsgIds[1], conv |-> ConvOf(ChatUser), text |-> "Hello",
     sender |-> "customer", timestamp |-> ServerTimes[1], image_url |-> NULL,
     ocr_text |-> NULL, agent_id |-> UNDEF, analysis |-> UNDEF, from |-> NULL]

InitReply ==
    /\ cust = [c \in CustTabs |-> InitCust]
    /\ dash = [a \in AgentTabs |->
                 [MountedDash("A", IF a = "at1" THEN 1 ELSE 2, ConvOf(ChatUser))
                    EXCEPT !.loadingConversations = FALSE,
                           !.activeConversations =
                        <<[id |-> ConvOf(ChatUser), user_id |-> ChatUser,
                           assigned_agent_id |-> NULL,
                           assigned_agent_name |-> NULL,
                           last_message_summary |-> "Hello", status |-> "open"]>>]]
    /\ sockets = <<NewSocket("at1", "A", DashClosure("A", ConvOf(ChatUser))),
                   NewSocket("at2", "A", DashClosure("A", ConvOf(ChatUser)))>>
    /\ http = {[NoRequest EXCEPT !.kind = "hist_req", !.tab = a,
                                  !.conv = ConvOf(ChatUser)] : a \in AgentTabs}
    /\ log = <<FirstMessage>>
    /\ assigned = [conv \in Convs |-> NULL]
    /\ storage = [tab \in Tabs |->
                    IF tab \in AgentTabs THEN AgentItems("A") ELSE NoItems]
    /\ last = Step("init", NULL, NoEvent)

NextReply ==
    \/ \E a \in AgentTabs : DashReply(a, "Bye")
    \/ \E r \in http : ServerReply(r)
    \/ \E a \in AgentTabs : \E r \in http : DashReplyDone(a, r)
    \/ \E r \in http : ServerHistory(r)
    \/ \E a \in AgentTabs : \E r \in http : DashHistoryDone(a, r)
    \/ OtherSend(ChatUser, "Hello")
    \/ \E s \in 1..Len(sockets) : SockOpen(s)
    \/ \E s \in 1..Len(sockets) : DashSockMessage(s)

SpecReply == InitReply /\ [][NextReply]_vars

\* One component freshly mounted with no stored identity, a customer chat
\* or an agent dashboard, on its name input screen; a conversation already
\* exists at the authority.  The user submits identities, starts over,
\* selects, leaves; the transport opens and closes the channels.
LifeCust == "ct1"
LifeDash == "at1"

InitLife ==
    /\ \E tab \in {LifeCust, LifeDash} :
          /\ cust = [c \in CustTabs |->
                       [InitCust EXCEPT !.mounted = (c = tab)]]
          /\ dash = [a \in AgentTabs |->
                       [InitDash EXCEPT !.mounted = (a = tab)]]
    /\ sockets = <<>>
    /\ http = {}
    /\ log = <<FirstMessage>>
    /\ assigned = [conv \in Convs |-> NULL]
    /\ storage = [tab \in Tabs |-> NoItems]
    /\ last = Step("init", NULL, NoEvent)

NextLife ==
    \/ \E u \in Users : CustSubmitName(LifeCust, u)
    \/ CustStartNewChat(LifeCust)
    \/ CustUnmount(LifeCust)
    \/ CustTimerFire(LifeCust)
    \/ \E s \in 1..Len(sockets) : \E code \in CloseCodes(sockets[s].st) :
           CustSockClose(s, code)
    \/ \E agent \in Agents : DashAgentNameSubmit(LifeDash, agent)
    \/ DashSwitchAgent(LifeDash)
    \/ \E conv \in Convs : DashSelect(LifeDash, conv)
    \/ DashUnmount(LifeDash)
    \/ DashTimerFire(LifeDash)
    \/ \E s \in 1..Len(sockets) : \E code \in CloseCodes(sockets[s].st) :
           DashSockClose(s, code)
    \/ \E r \in http : ServerList(r)
    \/ \E r \in http : DashListDone(LifeDash, r)
    \/ \E s \in 1..Len(sockets) : SockOpen(s)

SpecLife == InitLife /\ [][NextLife]_vars

\* The same components over a transport that is eventually reachable: it
\* fails a channel only while the bound leaves room for the socket of the
\* reconnect.  The handshake of a connecting socket and a pending timer are
\* not delayed for ever.
Reachable(code) == code = 1006 => Len(sockets) < MaxSocks

NextLifeFair ==
    \/ \E u \in Users : CustSubmitName(LifeCust, u)
    \/ CustStartNewChat(LifeCust)
    \/ CustUnmount(LifeCust)
    \/ CustTimerFire(LifeCust)
    \/ \E s \in 1..Len(sockets) : \E code \in CloseCodes(sockets[s].st) :
           Reachable(code) /\ CustSockClose(s, code)
    \/ \E agent \in Agents : DashAgentNameSubmit(LifeDash, agent)
    \/ DashSwitchAgent(LifeDash)
    \/ \E conv \in Convs : DashSelect(LifeDash, conv)
    \/ DashUnmount(LifeDash)
    \/ DashTimerFire(LifeDash)
    \/ \E s \in 1..Len(sockets) : \E code \in CloseCodes(sockets[s].st) :
           Reachable(code) /\ DashSockClose(s, code)
    \/ \E r \in http : ServerList(r)
    \/ \E r \in http : DashListDone(LifeDash, r)
    \/ \E s \in 1..Len(sockets) : SockOpen(s)

SpecLifeFair ==
    /\ InitLife /\ [][NextLifeFair]_vars
    /\ WF_vars(\E s \in 1..Len(sockets) : SockOpen(s))
    /\ WF_vars(CustTimerFire(LifeCust))
    /\ WF_vars(DashTimerFire(LifeDash))

\* The dashboard of agent A after mount, and a conversation that exists: the
\* agent, agent B, and agent A from another dashboard claim and release.
ClaimTab == "at1"

InitRelease ==
    /\ cust = [c \in CustTabs |-> InitCust]
    /\ dash = [a \in AgentTabs |->
                 IF a = ClaimTab THEN MountedDash("A", 1, NULL) ELSE InitDash]
    /\ sockets = <<NewSocket(ClaimTab, "A", DashClosure("A", NULL))>>
    /\ http = {[NoRequest EXCEPT !.kind = "list_req", !.tab = ClaimTab]}
    /\ log = <<FirstMessage>>
    /\ assigned = [conv \in Convs |-> NULL]
    /\ storage = [tab \in Tabs |->
                    IF tab = ClaimTab THEN AgentItems("A") ELSE NoItems]
    /\ last = Step("init", NULL, NoEvent)

NextRelease ==
    \/ \E r \in http : ServerList(r)
    \/ \E r \in http : DashListDone(ClaimTab, r)
    \/ DashClaim(ClaimTab, ConvOf(ChatUser))
    \/ \E r \in http : ServerClaim(r)
    \/ \E r \in http : DashClaimDone(ClaimTab, r)
    \/ DashRelease(ClaimTab, ConvOf(ChatUser))
    \/ \E r \in http : \E emit \in BOOLEAN : ServerRelease(r, emit)
    \/ \E r \in http : DashReleaseDone(ClaimTab, r)
    \/ \E agent \in Agents : OtherClaim(ConvOf(ChatUser), agent)
    \/ \E emit \in BOOLEAN : OtherRelease(ConvOf(ChatUser), emit)
    \/ \E s \in 1..Len(sockets) : SockOpen(s)
    \/ \E s \in 1..Len(sockets) : DashSockMessage(s)

SpecRelease == InitRelease /\ [][NextRelease]_vars

(***************************************************************************)
(* Message reconciliation in the customer chat view (SpecChat).            *)
(***************************************************************************)
ChatView == cust[ChatTab].chatHistory

\* the last step was ws.onmessage of the chat tab, for a message event
OnMessageRan ==
    /\ last.op = "onmessage" /\ last.tab = ChatTab
    /\ last.ev.type \in {"customer_chat_message", "agent_chat_message"}

\* positions of the list h that hold the authoritative message id
WithId(h, id) == {i \in 1..Len(h) : h[i].id = id}

\* positions of h that hold a pending entry with this sender role and text
PendingLike(h, sender, text) ==
    {i \in 1..Len(h) : h[i].id = NULL /\ h[i].sender = sender /\ h[i].text = text}

\* the list h with the entry at k given the server's details of the event
InPlace(h, k, ev) ==
    [i \in 1..Len(h) |->
        IF i = k
        THEN [id |-> ev.message_id, text |-> h[k].text, sender |-> h[k].sender,
              timestamp |-> ev.timestamp, image_url |-> ev.image_url,
              ocr_text |-> ev.ocr_text, tempClientSideId |-> h[k].tempClientSideId]
        ELSE h[i]]

\* C1: no two entries of the view ever carry the same message id; a message
\* whose event the view has just processed is in the view exactly once; and the
\* event of a new message consumes one pending entry of its text when there is
\* one, so that the message is not shown both as an authoritative entry and
\* as its own optimistic entry.
C1_ExactlyOnce ==
    /\ \A i, j \in 1..Len(ChatView) :
          (i # j /\ ChatView[i].id # NULL) => ChatView[i].id # ChatView[j].id
    /\ OnMessageRan => Cardinality(WithId(ChatView, last.ev.message_id)) = 1
    /\ (/\ OnMessageRan
        /\ last.ev.type = "customer_chat_message"
        /\ WithId(last.pre, last.ev.message_id) = {}
        /\ PendingLike(last.pre, "customer", last.ev.text) # {})
          => /\ Len(ChatView) = Len(last.pre)
             /\ Cardinality(PendingLike(ChatView, "customer", last.ev.text))
                  = Cardinality(PendingLike(last.pre, "customer", last.ev.text)) - 1

\* the echo of a send of this tab was processed after the response of the
\* send, and the view holds it once
C1_Witness ==
    /\ OnMessageRan
    /\ last.ev.from = ChatTab
    /\ ~cust[ChatTab].isSending
    /\ Len(last.pre) = Len(ChatView)
    /\ Cardinality(WithId(ChatView, last.ev.message_id)) = 1

\* C2: an event whose message_id is the id of an entry of the list leaves the
\* list as it was.
C2_DuplicateDropped ==
    (OnMessageRan /\ WithId(last.pre, last.ev.message_id) # {})
        => ChatView = last.pre

\* a duplicate was delivered while a pending entry with its text was in the list
C2_Witness ==
    /\ OnMessageRan
    /\ WithId(last.pre, last.ev.message_id) # {}
    /\ PendingLike(last.pre, last.ev.sender, last.ev.text) # {}
    /\ ChatView = last.pre

\* C3, as stated: a customer_chat_message that finds an optimistic customer
\* entry with its text updates such an entry in place.
C3_AsStated ==
    (/\ OnMessageRan
     /\ last.ev.type = "customer_chat_message"
     /\ PendingLike(last.pre, "customer", last.ev.text) # {})
        => \E k \in PendingLike(last.pre, "customer", last.ev.text) :
              ChatView = InPlace(last.pre, k, last.ev)

\* C3, amended: a customer_chat_message whose message_id is not yet in the
\* list and that finds an optimistic customer entry with its text updates such
\* an entry in place: same position, same length, the event's message_id,
\* timestamp, image_url and ocr_text, every other entry unchanged.
C3_UpdatedInPlace ==
    (/\ OnMessageRan
     /\ last.ev.type = "customer_chat_message"
     /\ WithId(last.pre, last.ev.message_id) = {}
     /\ PendingLike(last.pre, "customer", last.ev.text) # {})
        => \E k \in PendingLike(last.pre, "customer", last.ev.text) :
              ChatView = InPlace(last.pre, k, last.ev)

\* the echo of an image message reconciled the only entry of the list
C3_Witness ==
    /\ OnMessageRan
    /\ last.ev.type = "customer_chat_message"
    /\ WithId(last.pre, last.ev.message_id) = {}
    /\ PendingLike(last.pre, "customer", last.ev.text) # {}
    /\ last.ev.image_url = "url"
    /\ Len(ChatView) = 1 /\ ChatView[1].id = "M1" /\ ChatView[1].ocr_text = "ocr"

\* C4: a step that reconciles a pending entry reconciles the lowest-index
\* pending entry of that sender role and text and no other: the later ones stay
\* pending, and no authoritative customer entry ever follows a pending
\* customer entry with the same text.
C4_OldestFirst ==
    /\ (OnMessageRan /\ last.ev.type = "customer_chat_message")
          => \A k \in 1..Len(last.pre) :
                (last.pre[k].id = NULL /\ ChatView[k].id # NULL)
                    => /\ \A j \in PendingLike(last.pre, "customer", last.ev.text) :
                             k <= j
                       /\ \A j \in 1..Len(last.pre) : j # k => ChatView[j] = last.pre[j]
    /\ \A i, j \in 1..Len(ChatView) :
          (/\ i < j
           /\ ChatView[i].id = NULL /\ ChatView[i].sender = "customer"
           /\ ChatView[j].sender = "customer" /\ ChatView[j].text = ChatView[i].text)
              => ChatView[j].id = NULL

\* two entries with the same text were pending; the echo went to the first
C4_Witness ==
    /\ OnMessageRan
    /\ Cardinality(PendingLike(last.pre, "customer", last.ev.text)) = 2
    /\ ChatView[1].id # NULL /\ last.pre[1].id = NULL
    /\ ChatView[2].id = NULL /\ ChatView[2].text = ChatView[1].text

\* C5: a message event whose id is not in the list and that matches no pending
\* entry of its sender role and text appends exactly one entry, at the end,
\* with the server's id, text, sender and timestamp; the entries before it are
\* unchanged.
C5_Appended ==
    (/\ OnMessageRan
     /\ WithId(last.pre, last.ev.message_id) = {}
     /\ PendingLike(last.pre, last.ev.sender, last.ev.text) = {})
        => /\ Len(ChatView) = Len(last.pre) + 1
           /\ SubSeq(ChatView, 1, Len(last.pre)) = last.pre
           /\ ChatView[Len(ChatView)].id = last.ev.message_id
           /\ ChatView[Len(ChatView)].text = last.ev.text
           /\ ChatView[Len(ChatView)].sender = last.ev.sender
           /\ ChatView[Len(ChatView)].timestamp = last.ev.timestamp

\* an agent message arrived while a customer entry with the same text was
\* pending, and was appended after it
C5_Witness ==
    /\ OnMessageRan
    /\ last.ev.type = "agent_chat_message"
    /\ PendingLike(last.pre, "customer", last.ev.text) # {}
    /\ Len(ChatView) = Len(last.pre) + 1
    /\ ChatView[Len(ChatView)].id = last.ev.message_id


(***************************************************************************)
(* Assignment and its display on the dashboards (SpecAssign).              *)
(***************************************************************************)
TheConv == ConvOf(ChatUser)

\* the outcome of the claim of dashboard a, once the authority has answered
ClaimOutcome(a) ==
    IF \E r \in http : r.kind = "claim_resp" /\ r.tab = a
    THEN IF (CHOOSE r \in http : r.kind = "claim_resp" /\ r.tab = a).ok
         THEN "granted" ELSE "refused"
    ELSE dash[a].claimed

\* C6: the assignment of a conversation is null or one agent identifier, and
\* of the claims two agents issue on the same unassigned conversation exactly
\* one is granted; the agent whose claim is refused is shown the failure, the
\* agent whose claim is granted is not.
C6_OneClaimWins ==
    /\ \A conv \in Convs : assigned[conv] \in Agents \cup {NULL}
    /\ \A a, b \in AgentTabs :
          (a # b /\ ClaimOutcome(a) # UNDEF /\ ClaimOutcome(b) # UNDEF)
              => (ClaimOutcome(a) # ClaimOutcome(b))
    /\ \A a \in AgentTabs :
          /\ ClaimOutcome(a) = "granted" => assigned[TheConv] = dash[a].agentId
          /\ dash[a].claimed = "refused"
                => dash[a].alert = "Failed to claim conversation"
          /\ dash[a].claimed = "granted" => dash[a].alert = NULL

\* the claim of at1 was refused and shown as failed while the granted claim of
\* at2 had not yet returned
C6_Witness ==
    /\ dash["at1"].claimed = "refused"
    /\ dash["at1"].alert = "Failed to claim conversation"
    /\ \E r \in http : r.kind = "claim_resp" /\ r.tab = "at2" /\ r.ok
    /\ assigned[TheConv] = "B"

\* dashboard a is connected and has nothing left to process or to load
DashSettled(a) ==
    /\ dash[a].ws # NoSock
    /\ sockets[dash[a].ws].st = "open"
    /\ sockets[dash[a].ws].inbox = <<>>
    /\ ~\E r \in http : r.tab = a /\ r.kind \in {"list_req", "list_resp"}

\* C7: once the claim of agent A is granted, the claim of agent B refused, and
\* the conversation_assigned event processed by a connected dashboard, that
\* dashboard shows the conversation with assigned agent A.
C7_AsStated ==
    \A a \in AgentTabs :
        ( /\ assigned[TheConv] = "A"
          /\ dash["at1"].claimed = "granted"
          /\ dash["at2"].claimed = "refused"
          /\ dash[a].heard[TheConv] = "A"
          /\ DashSettled(a)
          /\ HasConv(dash[a].activeConversations, TheConv) )
        => ConvEntry(dash[a].activeConversations, TheConv).assigned_agent_id = "A"

(***************************************************************************)
(* Two tabs of one agent (SpecReply).                                      *)
(***************************************************************************)
\* the entries of a dashboard view that show the message of an event
Showing(a, ev) ==
    {i \in 1..Len(dash[a].selectedConversationMessages) :
        /\ dash[a].selectedConversationMessages[i].sender = ev.sender
        /\ dash[a].selectedConversationMessages[i].text = ev.text
        /\ dash[a].selectedConversationMessages[i].timestamp = ev.timestamp}

\* C8: when the tab of an agent that did not send a reply has processed the
\* fanout event of the reply, sent from another tab of the same agent with the
\* same conversation selected and its history loaded, it shows the reply
\* exactly once.
C8_AsStated ==
    ( /\ last.op = "onmessage"
      /\ last.tab \in AgentTabs
      /\ last.ev.type = "agent_chat_message"
      /\ last.ev.from \in AgentTabs \ {last.tab}
      /\ last.ev.agent_id = dash[last.tab].agentId
      /\ last.ev.conversation_id = dash[last.tab].selectedConversationId
      /\ ~\E r \in http : r.tab = last.tab /\ r.kind \in {"hist_req", "hist_resp"} )
    => Cardinality(Showing(last.tab, last.ev)) = 1

(***************************************************************************)
(* Drop and reconnect of the customer channel (SpecConn).                  *)
(***************************************************************************)
\* the channel of the tab is open again after a drop
Reconnected ==
    /\ cust[ChatTab].ws > 1
    /\ sockets[cust[ChatTab].ws].st = "open"

\* nothing is in flight: no request, no response, no frame
Settled ==
    /\ http = {}
    /\ ~cust[ChatTab].isSending
    /\ \A s \in 1..Len(sockets) : sockets[s].inbox = <<>>

\* C9: after a drop of the open channel that found the visible list equal to
\* the authoritative history, and a reconnect, once nothing is in flight, the
\* visible list is the authoritative history of the conversation, message for
\* message.
C9_AsStated ==
    (Reconnected /\ Settled /\ cust[ChatTab].inSyncAtDrop)
        => SameMessages(ChatView, HistoryOf(ConvOf(ChatUser)))

\* C10: when the channel of the tab enters open, a fetch of the history of
\* its conversation is under way.
C10_AsStated ==
    (last.op = "onopen" /\ last.tab = ChatTab)
        => \E r \in http : r.tab = ChatTab /\ r.kind \in {"fetch_req", "fetch_resp"}


(***************************************************************************)
(* The lifecycle of the channels (SpecLife).                               *)
(***************************************************************************)
\* reconnectTimeout.current of a component
TimerOf(tab) ==
    IF tab \in CustTabs THEN cust[tab].reconnectTimeout
                        ELSE dash[tab].reconnectTimeout

\* C11: when ws.onclose runs with a code other than 1000 and no reconnect is
\* pending, one reconnect is scheduled, with the delay of 3 seconds and the
\* connectWebSocket the socket was created by; when it runs with code 1000, or
\* while a reconnect is pending, the timer is left as it was.
C11_ReconnectScheduled ==
    last.op = "onclose" =>
        IF last.pre.code # 1000 /\ ~last.pre.timer.set
        THEN /\ TimerOf(last.tab).set
             /\ TimerOf(last.tab).delay = 3000
             /\ TimerOf(last.tab).by = last.pre.sock
             /\ TimerOf(last.tab).clo = sockets[last.pre.sock].clo
        ELSE TimerOf(last.tab) = last.pre.timer

\* the channel of the dashboard failed with no reconnect pending
C11_Witness ==
    /\ last.op = "onclose"
    /\ last.tab = LifeDash
    /\ last.pre.code = 1006
    /\ ~last.pre.timer.set
    /\ TimerOf(LifeDash).set

\* the component is mounted with an identity set
Identified(tab) ==
    IF tab \in CustTabs
    THEN /\ cust[tab].mounted /\ cust[tab].isAuthenticated
         /\ cust[tab].userId # NULL /\ ~cust[tab].showNameInputScreen
    ELSE /\ dash[tab].mounted /\ dash[tab].agentId # NULL
         /\ ~dash[tab].showAgentNameInput

\* ws.current of a component
ChannelOf(tab) == IF tab \in CustTabs THEN cust[tab].ws ELSE dash[tab].ws

ChannelOpen(tab) ==
    ChannelOf(tab) # NoSock /\ sockets[ChannelOf(tab)].st = "open"

\* the channel of an identified component is open, or being connected, or a
\* reconnect is pending
NoDeadChannel ==
    \A tab \in {LifeCust, LifeDash} :
        Identified(tab) =>
            /\ ChannelOf(tab) # NoSock
            /\ \/ sockets[ChannelOf(tab)].st \in {"connecting", "open"}
               \/ TimerOf(tab).set

ClosureOf(tab) ==
    IF tab \in CustTabs THEN CustClosure(cust[tab]) ELSE DashClosureOf(dash[tab])

\* C13: a pending reconnect timer was set by the close handler of the current
\* channel of its component, never by that of a channel torn down before, and
\* the current socket of a component was created by the connectWebSocket of
\* its current render, never by one that a torn-down channel left behind.
C13_AsStated ==
    \A tab \in {LifeCust, LifeDash} :
        /\ TimerOf(tab).set => TimerOf(tab).by = ChannelOf(tab)
        /\ ChannelOf(tab) # NoSock
              => (Identified(tab) /\ sockets[ChannelOf(tab)].clo = ClosureOf(tab))

(***************************************************************************)
(* Sends that fail or are never echoed (SpecChat).                         *)
(***************************************************************************)
\* the entry is awaiting its authoritative identifier
Pending(e) == e.id = NULL

\* C14: once nothing is in flight any more (no request, no response, no
\* frame, the channel open), so that no echo can still arrive, no entry of the
\* list is pending.
C14_AsStated ==
    (Settled /\ ChannelOpen(ChatTab))
        => \A i \in 1..Len(ChatView) : ~Pending(ChatView[i])

\* C15: when the send request has failed, the entry of that send is in the
\* list and differs from what it was before the failure was handled.
C15_AsStated ==
    (last.op = "sendFailed" /\ last.tab = ChatTab)
        => \E i \in 1..Len(ChatView) :
              /\ ChatView[i].tempClientSideId = TempIds[cust[ChatTab].sends]
              /\ i <= Len(last.pre)
              /\ ChatView[i] # last.pre[i]

\* C16: a send appends one entry, pending, with a temporary id no entry of
\* the list has, and leaves the entries of the list as they were.
C16_NewEntryPerSend ==
    (last.op = "handleSendMessage" /\ last.tab = ChatTab)
        => /\ Len(ChatView) = Len(last.pre) + 1
           /\ SubSeq(ChatView, 1, Len(last.pre)) = last.pre
           /\ Pending(ChatView[Len(ChatView)])
           /\ ChatView[Len(ChatView)].sender = "customer"
           /\ \A i \in 1..Len(last.pre) :
                 last.pre[i].tempClientSideId
                     # ChatView[Len(ChatView)].tempClientSideId

\* a retry: the send of a text whose earlier send failed (nothing was ever
\* accepted) and whose entry is still in the list
C16_Witness ==
    /\ last.op = "handleSendMessage"
    /\ log = <<>>
    /\ Len(last.pre) = 1
    /\ Pending(last.pre[1])
    /\ Len(ChatView) = 2
    /\ ChatView[2].text = last.pre[1].text
    /\ ChatView[1] = last.pre[1]

(***************************************************************************)
(* Claims and releases, and the view of a dashboard (SpecRelease).         *)
(***************************************************************************)
ClaimList == dash[ClaimTab].activeConversations

\* a dashboard has just processed an assignment event of TheConv, which its
\* list shows
AssignmentProcessed(type) ==
    /\ last.op = "onmessage"
    /\ last.tab = ClaimTab
    /\ last.ev.type = type
    /\ last.ev.conversation_id = TheConv
    /\ HasConv(last.pre.list, TheConv)

\* the list but for the assignment of conv, which is agent
WithAssignment(list, conv, agent, name) ==
    [i \in 1..Len(list) |->
        IF list[i].id = conv THEN [list[i] EXCEPT !.assigned_agent_id = agent,
                                                  !.assigned_agent_name = name]
                             ELSE list[i]]

\* C17: a refused claim raises the conflict notice as its response is handled,
\* and neither issuing a claim or a release nor handling its response changes
\* the conversation list.
C17_NoLocalAssignment ==
    /\ (last.op = "claimFailed" /\ last.tab = ClaimTab)
          => dash[ClaimTab].alert = "Failed to claim conversation"
    /\ (/\ last.tab = ClaimTab
        /\ last.op \in {"handleClaimConversation", "claimOk", "claimFailed",
                        "handleReleaseConversation", "releaseOk",
                        "releaseFailed"})
          => ClaimList = last.pre

\* the claim of the dashboard was refused: the list still shows the
\* conversation unassigned and the notice is up
C17_Witness ==
    /\ last.op = "claimFailed"
    /\ last.tab = ClaimTab
    /\ dash[ClaimTab].alert = "Failed to claim conversation"
    /\ assigned[TheConv] = "B"
    /\ ConvEntry(ClaimList, TheConv).assigned_agent_id = NULL

\* C18: a release succeeds and leaves the conversation unassigned, also when
\* it was unassigned already; a dashboard that processes
\* conversation_unassigned shows the conversation unassigned and the rest of
\* its list as before, so that processing the event again changes nothing.
C18_ReleaseIdempotent ==
    /\ last.op = "release"
          => (last.pre.ok /\ assigned[last.pre.conv] = NULL)
    /\ AssignmentProcessed("conversation_unassigned")
          => /\ ClaimList = WithAssignment(last.pre.list, TheConv, NULL, NULL)
             /\ ConvEntry(last.pre.list, TheConv).assigned_agent_id = NULL
                   => ClaimList = last.pre.list

\* the dashboard processed conversation_unassigned twice in a row for a
\* conversation that stayed unassigned: the second release was of an
\* unassigned conversation
C18_Witness ==
    /\ AssignmentProcessed("conversation_unassigned")
    /\ last.pre.heard[TheConv] = NULL
    /\ ConvEntry(last.pre.list, TheConv).assigned_agent_id = NULL
    /\ assigned[TheConv] = NULL
    /\ dash[ClaimTab].releases = 1

\* C19: the claim of the agent who holds the conversation succeeds and leaves
\* it assigned to that agent; a dashboard that processes the
\* conversation_assigned of the re-claim shows the list it showed.
C19_ReclaimIdempotent ==
    /\ (last.op = "claim" /\ last.pre.was = last.pre.agent)
          => (last.pre.ok /\ assigned[last.pre.conv] = last.pre.agent)
    /\ AssignmentProcessed("conversation_assigned")
          => /\ ClaimList = WithAssignment(last.pre.list, TheConv, last.ev.agent_id,
                                        last.ev.agent_name)
             /\ ConvEntry(last.pre.list, TheConv).assigned_agent_id = last.ev.agent_id
                   => ClaimList = last.pre.list

\* the dashboard of agent A, whose claim was granted, processed the
\* conversation_assigned of a second claim of agent A
C19_Witness ==
    /\ AssignmentProcessed("conversation_assigned")
    /\ last.ev.agent_id = "A"
    /\ last.pre.heard[TheConv] = "A"
    /\ ConvEntry(last.pre.list, TheConv).assigned_agent_id = "A"
    /\ dash[ClaimTab].claimed = "granted"
    /\ assigned[TheConv] = "A"

(***************************************************************************)
(* The order of the messages in the customer view (SpecChat).              *)
(***************************************************************************)
\* the place of a message in the order in which the authority accepted them
AcceptedAt(id) == CHOOSE k \in 1..Len(log) : log[k].id = id

\* C20: the authoritative messages of the customer view appear in the order
\* in which the authority accepted them, which is the order of the fetched
\* history.
C20_AsStated ==
    \A i, j \in 1..Len(ChatView) :
        (i < j /\ ~Pending(ChatView[i]) /\ ~Pending(ChatView[j]))
            => AcceptedAt(ChatView[i].id) < AcceptedAt(ChatView[j].id)

(***************************************************************************)
(* Identifiers and immutability in the customer view (SpecChat).           *)
(***************************************************************************)
\* the identifiers the authority has assigned
ServerIds == {log[k].id : k \in 1..Len(log)}

\* the list h with other temporary ids on the entries that carry one
Retagged(h) ==
    [i \in 1..Len(h) |->
        [h[i] EXCEPT !.tempClientSideId = IF @ = UNDEF THEN UNDEF ELSE "other"]]

\* a handler of the chat tab that works on the list has just run
ListHandlerRan ==
    /\ last.tab = ChatTab
    /\ last.op \in {"onmessage", "handleSendMessage", "sendOk", "sendFailed"}

\* C21: the id of every entry of the view is null or an identifier the
\* authority assigned, never a temporary id; the temporary id of an entry is
\* never written by a handler; and what ws.onmessage makes of the list does
\* not depend on the temporary ids.
C21_IdFromServer ==
    /\ \A i \in 1..Len(ChatView) :
          /\ ChatView[i].id = NULL \/ ChatView[i].id \in ServerIds
          /\ ChatView[i].id \notin Range(TempIds)
          /\ ChatView[i].id # ChatView[i].tempClientSideId
    /\ ListHandlerRan
          => \A i \in 1..Len(last.pre) :
                ChatView[i].tempClientSideId = last.pre[i].tempClientSideId
    /\ OnMessageRan
          => CustOnMessage(Retagged(last.pre), last.ev) = Retagged(ChatView)

\* the echo of a send gave the optimistic entry the authority's identifier
\* and left its temporary id
C21_Witness ==
    /\ OnMessageRan
    /\ \E i \in 1..Len(last.pre) :
          /\ last.pre[i].id = NULL
          /\ ChatView[i].id = last.ev.message_id
          /\ ChatView[i].id \in ServerIds
          /\ ChatView[i].tempClientSideId = TempIds[1]

\* C22: a WebSocket event or a send leaves every entry that has an
\* authoritative identifier at its position, with every field as it was.
C22_Immutable ==
    ListHandlerRan
        => \A i \in 1..Len(last.pre) :
              ~Pending(last.pre[i])
                  => (i <= Len(ChatView) /\ ChatView[i] = last.pre[i])

\* the event of a customer message was processed while the list held an
\* authoritative customer entry with the same text
C22_Witness ==
    /\ OnMessageRan
    /\ last.ev.type = "customer_chat_message"
    /\ \E i \in 1..Len(last.pre) :
          /\ ~Pending(last.pre[i])
          /\ last.pre[i].sender = "customer"
          /\ last.pre[i].text = last.ev.text
          /\ last.pre[i].id # last.ev.message_id
          /\ ChatView[i] = last.pre[i]

(***************************************************************************)
(* Timestamps of the entries shown (SpecReply).                            *)
(***************************************************************************)
\* the timestamps the authority assigned to the messages of a conversation
\* with the sender and the text of an entry
AssignedTimes(conv, e) ==
    {log[k].timestamp : k \in {j \in 1..Len(log) : /\ log[j].conv = conv
                                                  /\ log[j].sender = e.sender
                                                  /\ log[j].text = e.text}}

\* C24: every authoritative entry of a customer view and every entry of a
\* dashboard view (a message of the fetched history, of a fanout event, or a
\* reply the authority has accepted) carries the timestamp the authority
\* assigned to the message, never a timestamp of the client's clock.
C24_AsStated ==
    /\ \A c \in CustTabs : \A i \in 1..Len(cust[c].chatHistory) :
          ~Pending(cust[c].chatHistory[i])
              => cust[c].chatHistory[i].timestamp # LocalTime
    /\ \A a \in AgentTabs : \A i \in 1..Len(dash[a].selectedConversationMessages) :
          dash[a].selectedConversationMessages[i].timestamp
              \in AssignedTimes(dash[a].selectedConversationId,
                                dash[a].selectedConversationMessages[i])

(***************************************************************************)
(* The actions offered on a conversation (SpecRelease).                    *)
(***************************************************************************)
\* the entry the list had for the conversation of the request a handler of
\* the tab has just issued
EntryActedOn(kind) ==
    LET r == CHOOSE q \in http : q.tab = last.tab /\ q.kind = kind
    IN  ConvEntry(last.pre, r.conv)

\* C27: a claim is issued only for a conversation the list shows with no
\* assigned agent, a release only for one it shows assigned to the local
\* agent; so for a conversation shown assigned to another agent neither is
\* issued.
C27_ActionsGated ==
    /\ last.op = "handleClaimConversation"
          => /\ \E q \in http : q.tab = last.tab /\ q.kind = "claim_req"
             /\ ~Truthy(EntryActedOn("claim_req").assigned_agent_id)
    /\ last.op = "handleReleaseConversation"
          => /\ \E q \in http : q.tab = last.tab /\ q.kind = "release_req"
             /\ EntryActedOn("release_req").assigned_agent_id
                    = dash[last.tab].agentId
    /\ \A a \in AgentTabs :
          \A i \in 1..Len(dash[a].activeConversations) :
             ( /\ Truthy(dash[a].activeConversations[i].assigned_agent_id)
               /\ dash[a].activeConversations[i].assigned_agent_id # dash[a].agentId )
             => ~\E q \in http :
                    /\ q.tab = a
                    /\ q.kind \in {"claim_req", "release_req"}
                    /\ q.conv = dash[a].activeConversations[i].id
                    /\ last.op \in {"handleClaimConversation",
                                    "handleReleaseConversation"}

\* the agent released a conversation the list showed as its own, after a
\* claim of its own
C27_Witness ==
    /\ last.op = "handleReleaseConversation"
    /\ last.tab = ClaimTab
    /\ ConvEntry(last.pre, ConvOf(ChatUser)).assigned_agent_id = "A"
    /\ dash[ClaimTab].claims > 0

\* the dashboard has nothing to wait for: its channel is open, no request or
\* response is in flight and no frame is queued on a socket
DashQuiet(a) ==
    /\ ChannelOpen(a)
    /\ http = {}
    /\ \A s \in 1..Len(sockets) : sockets[s].inbox = <<>>

\* C26: once the claim the agent issued from the Claim button has been
\* granted, the authority still has the conversation assigned to the agent
\* and the dashboard has nothing left to wait for, the dashboard shows the
\* conversation with the tag "Assigned to YOU".
C26_AsStated ==
    ( /\ dash[ClaimTab].claimed = "granted"
      /\ assigned[ConvOf(ChatUser)] = dash[ClaimTab].agentId
      /\ Rendered(dash[ClaimTab])
      /\ DashQuiet(ClaimTab) )
    => AssignedTag(dash[ClaimTab], ConvOf(ChatUser)) = "Assigned to YOU"

(***************************************************************************)
(* The customer session in localStorage (SpecAuth).                        *)
(***************************************************************************)
\* One customer tab, mounted in a browser with no stored identity.  The user
\* enters a name (a new customer: no identifier; a customer the search
\* found: its identifier), starts a new chat, leaves the page and comes back.
AuthTab == "ct1"

InitAuth ==
    /\ cust = [c \in CustTabs |-> [InitCust EXCEPT !.mounted = (c = AuthTab)]]
    /\ dash = [a \in AgentTabs |-> InitDash]
    /\ sockets = <<>>
    /\ http = {}
    /\ log = <<FirstMessage>>
    /\ assigned = [conv \in Convs |-> NULL]
    /\ storage = [tab \in Tabs |-> NoItems]
    /\ last = Step("init", NULL, NoEvent)

NextAuth ==
    \/ \E name \in NameInputs : \E existing \in Users \cup {NULL} :
           \E fresh \in Users : CustNameSubmit(AuthTab, name, existing, fresh)
    \/ CustStartNewChat(AuthTab)
    \/ CustUnmount(AuthTab)
    \/ CustMount(AuthTab)
    \/ \E r \in http : ServerFetch(r)
    \/ \E r \in http : CustFetchDone(AuthTab, r)
    \/ \E s \in 1..Len(sockets) : SockOpen(s)

SpecAuth == InitAuth /\ [][NextAuth]_vars

\* the identity in the state of the provider
IdentityOf(c) == [userId |-> cust[c].userId, userName |-> cust[c].userName]

\* C28: setCustomerIdentity leaves the trimmed name and the supplied
\* identifier, or a fresh one when none is supplied, in the state; the load
\* of a later mount restores exactly the identity the last setCustomerIdentity
\* left, authenticated, and restores none when clearCustomerIdentity has run
\* since or no identity was ever set.
C28_SessionPersisted ==
    /\ (last.op = "handleCustomerNameSubmit" /\ last.tab = AuthTab)
          => /\ cust[AuthTab].identitySet = IdentityOf(AuthTab)
             /\ cust[AuthTab].userName = trim(last.pre.name)
             /\ cust[AuthTab].userId = IF last.pre.existing # NULL
                                       THEN last.pre.existing
                                       ELSE last.pre.fresh
             /\ cust[AuthTab].isAuthenticated
    /\ (last.op = "mount" /\ last.tab = AuthTab)
          => /\ IdentityOf(AuthTab) = cust[AuthTab].identitySet
             /\ cust[AuthTab].isAuthenticated
                    = (cust[AuthTab].identitySet # NoIdentity)
             /\ cust[AuthTab].showNameInputScreen
                    = (cust[AuthTab].identitySet = NoIdentity)

\* a later mount restored the identity of a new customer whose name was
\* typed with blanks around it
C28_Witness ==
    /\ last.op = "mount"
    /\ last.tab = AuthTab
    /\ cust[AuthTab].isAuthenticated
    /\ cust[AuthTab].userName = "Al"
    /\ cust[AuthTab].userId = "u2"
    /\ storage[AuthTab].customer_user_name = "Al"

(***************************************************************************)
(* Switch Agent (SpecLife).                                                *)
(***************************************************************************)
\* the state and the stored items of a dashboard hold no agent session
SessionCleared(a) ==
    /\ dash[a].agentId = NULL
    /\ dash[a].agentName = ""
    /\ storage[a].agent_id = NULL
    /\ storage[a].agent_name = NULL
    /\ dash[a].activeConversations = <<>>
    /\ dash[a].selectedConversationId = NULL
    /\ dash[a].selectedConversationMessages = <<>>
    /\ dash[a].aiSuggestions = NULL
    /\ dash[a].showAgentNameInput
    /\ ~dash[a].reconnectTimeout.set

\* C29: when handleSwitchAgent has run the session is cleared (identifier and
\* name unset in the state and removed from localStorage, list, selection,
\* messages and suggestions empty, name prompt shown, no reconnect pending);
\* and while the name prompt is shown no socket of the dashboard is open and
\* no reconnect is pending.
C29_AsStated ==
    /\ (last.op = "handleSwitchAgent" /\ last.tab = LifeDash)
          => SessionCleared(LifeDash)
    /\ (dash[LifeDash].mounted /\ dash[LifeDash].showAgentNameInput)
          => /\ ~dash[LifeDash].reconnectTimeout.set
             /\ \A s \in 1..Len(sockets) :
                   sockets[s].owner = LifeDash => sockets[s].st # "open"

(***************************************************************************)
(* Assignment events on a list of two conversations (SpecEvents).          *)
(***************************************************************************)
\* The dashboard of agent A with both conversations in its list and its
\* channel connecting.  The list is a snapshot fetched earlier: what it
\* shows of each conversation need not be what the authority holds by now.
\* Agent B, and agent A from another dashboard, claim and release.
EvTab == "at1"

\* the name the authority sends with an agent, none with none
NameOrNull(agent) == IF agent = NULL THEN NULL ELSE AgentNameOf(agent)

Snapshot(shown) ==
    <<[id |-> "c1", user_id |-> "u1", assigned_agent_id |-> shown["c1"],
       assigned_agent_name |-> NameOrNull(shown["c1"]),
       last_message_summary |-> "Hello", status |-> "open"],
      [id |-> "c2", user_id |-> "u2", assigned_agent_id |-> shown["c2"],
       assigned_agent_name |-> NameOrNull(shown["c2"]),
       last_message_summary |-> "Hello", status |-> "open"]>>

InitEvents ==
    /\ cust = [c \in CustTabs |-> InitCust]
    /\ \E shown \in [Convs -> Agents \cup {NULL}] :
          dash = [a \in AgentTabs |->
                    IF a = EvTab
                    THEN [MountedDash("A", 1, NULL)
                            EXCEPT !.loadingConversations = FALSE,
                                   !.activeConversations = Snapshot(shown)]
                    ELSE InitDash]
    /\ sockets = <<NewSocket(EvTab, "A", DashClosure("A", NULL))>>
    /\ http = {}
    /\ log = <<FirstMessage, [FirstMessage EXCEPT !.id = MsgIds[2], !.conv = "c2",
                                                 !.timestamp = ServerTimes[2]]>>
    /\ assigned \in [Convs -> Agents \cup {NULL}]
    /\ storage = [tab \in Tabs |->
                    IF tab = EvTab THEN AgentItems("A") ELSE NoItems]
    /\ last = Step("init", NULL, NoEvent)

NextEvents ==
    \/ \E conv \in Convs : \E agent \in Agents : OtherClaim(conv, agent)
    \/ \E conv \in Convs : \E emit \in BOOLEAN : OtherRelease(conv, emit)
    \/ \E s \in 1..Len(sockets) : SockOpen(s)
    \/ \E s \in 1..Len(sockets) : DashSockMessage(s)

SpecEvents == InitEvents /\ [][NextEvents]_vars

\* the agent an assignment event names: none for conversation_unassigned
NamedBy(ev) == IF ev.type = "conversation_assigned" THEN ev.agent_id ELSE NULL

\* C30: once the dashboard has processed an assignment event for a
\* conversation of its list, the list shows the conversation with the agent
\* (and the name) of the last such event processed, none after
\* conversation_unassigned, whatever it showed before; and an assignment event
\* changes the entry of the conversation it names in those two fields only and
\* no other entry.
C30_LastWriterWins ==
    /\ \A i \in 1..Len(dash[EvTab].activeConversations) :
          LET e == dash[EvTab].activeConversations[i]
          IN  dash[EvTab].heard[e.id] # UNDEF
                 => /\ e.assigned_agent_id = dash[EvTab].heard[e.id]
                    /\ e.assigned_agent_name = NameOrNull(dash[EvTab].heard[e.id])
    /\ ( /\ last.op = "onmessage"
         /\ last.tab = EvTab
         /\ last.ev.type \in {"conversation_assigned", "conversation_unassigned"} )
       => /\ dash[EvTab].heard[last.ev.conversation_id] = NamedBy(last.ev)
          /\ Len(dash[EvTab].activeConversations) = Len(last.pre.list)
          /\ \A i \in 1..Len(last.pre.list) :
                dash[EvTab].activeConversations[i] =
                    IF last.pre.list[i].id = last.ev.conversation_id
                    THEN [last.pre.list[i] EXCEPT
                             !.assigned_agent_id = NamedBy(last.ev),
                             !.assigned_agent_name = NameOrNull(NamedBy(last.ev))]
                    ELSE last.pre.list[i]

\* the event of agent B's claim reached a list that showed the conversation
\* assigned to agent A and the other conversation assigned too
C30_Witness ==
    /\ last.op = "onmessage"
    /\ last.tab = EvTab
    /\ last.ev.type = "conversation_assigned"
    /\ last.ev.conversation_id = "c1"
    /\ last.ev.agent_id = "B"
    /\ ConvEntry(last.pre.list, "c1").assigned_agent_id = "A"
    /\ ConvEntry(dash[EvTab].activeConversations, "c1").assigned_agent_id = "B"
    /\ ConvEntry(dash[EvTab].activeConversations, "c2").assigned_agent_id = "A"

(***************************************************************************)
(* A customer message without analysis (SpecAnalysis).                     *)
(***************************************************************************)
\* The customer's tab and the dashboard of agent A with the conversation
\* selected, both just mounted: the history fetches are in flight and the
\* channels are connecting.  The first message of the conversation was
\* analysed; for the messages accepted from now on the analysis is there or
\* it is not.
Analyses == {UNDEF, "analysis"}
AnalysisTab == "at1"

InitAnalysis ==
    /\ cust = [c \in CustTabs |->
                 IF c = ChatTab
                 THEN [InitCust EXCEPT !.mounted = TRUE,
                                       !.userId = ChatUser, !.userName = ChatName,
                                       !.isAuthenticated = TRUE,
                                       !.showNameInputScreen = FALSE, !.ws = 1,
                                       !.identitySet = [userId |-> ChatUser,
                                                        userName |-> ChatName]]
                 ELSE InitCust]
    /\ dash = [a \in AgentTabs |->
                 IF a = AnalysisTab
                 THEN [MountedDash("A", 2, ConvOf(ChatUser))
                         EXCEPT !.loadingConversations = FALSE,
                                !.activeConversations =
                                    <<[id |-> ConvOf(ChatUser), user_id |-> ChatUser,
                                       assigned_agent_id |-> NULL,
                                       assigned_agent_name |-> NULL,
                                       last_message_summary |-> "Hello", status |-> "open"]>>]
                 ELSE InitDash]
    /\ sockets = <<NewSocket(ChatTab, ChatUser,
                             [NoClosure EXCEPT !.isAuthenticated = TRUE,
                                               !.userId = ChatUser, !.show = FALSE]),
                   NewSocket(AnalysisTab, "A", DashClosure("A", ConvOf(ChatUser)))>>
    /\ http = {[NoRequest EXCEPT !.kind = "fetch_req", !.tab = ChatTab,
                                  !.user = ChatUser],
               [NoRequest EXCEPT !.kind = "hist_req", !.tab = AnalysisTab,
                                  !.conv = ConvOf(ChatUser)]}
    /\ log = <<[FirstMessage EXCEPT !.analysis = "analysis"]>>
    /\ assigned = [conv \in Convs |-> NULL]
    /\ storage = [tab \in Tabs |->
                    IF tab = ChatTab THEN CustomerItems(ChatUser, ChatName)
                    ELSE IF tab = AnalysisTab THEN AgentItems("A")
                    ELSE NoItems]
    /\ last = Step("init", NULL, NoEvent)

NextAnalysis ==
    \/ CustSend(ChatTab, "Bye", FALSE)
    \/ \E r \in http : \E analysis \in Analyses : ServerPost(r, analysis)
    \/ \E r \in http : CustSendDone(ChatTab, r)
    \/ \E r \in http : ServerFetch(r)
    \/ \E r \in http : CustFetchDone(ChatTab, r)
    \/ \E r \in http : ServerHistory(r)
    \/ \E r \in http : DashHistoryDone(AnalysisTab, r)
    \/ DashReply(AnalysisTab, "Hello")
    \/ \E r \in http : ServerReply(r)
    \/ \E r \in http : DashReplyDone(AnalysisTab, r)
    \/ \E s \in 1..Len(sockets) : SockOpen(s)
    \/ \E s \in 1..Len(sockets) : CustSockMessage(s)
    \/ \E s \in 1..Len(sockets) : DashSockMessage(s)

SpecAnalysis == InitAnalysis /\ [][NextAnalysis]_vars

\* the messages the authority has accepted from a tab, and the requests of
\* the tab for a message that are in flight or answered and not yet handled
AcceptedFrom(c) == Cardinality({k \in 1..Len(log) : log[k].from = c})
PostsInFlight(c) == {r \in http : r.tab = c /\ r.kind \in {"post_req", "post_resp"}}

SwitchTab == "ct1"

InitSwitch ==
    /\ cust = [c \in CustTabs |-> [InitCust EXCEPT !.mounted = (c = SwitchTab)]]
    /\ dash = [a \in AgentTabs |-> InitDash]
    /\ sockets = <<>>
    /\ http = {}
    /\ log = <<>>
    /\ assigned = [conv \in Convs |-> NULL]
    /\ storage = [tab \in Tabs |-> NoItems]
    /\ last = Step("init", NULL, NoEvent)

NextSwitch ==
    \/ \E u \in Users : CustSubmitName(SwitchTab, u)
    \/ CustStartNewChat(SwitchTab)
    \/ \E r \in http : ServerFetch(r)
    \/ \E r \in http : CustFetchDone(SwitchTab, r)
    \/ \E u \in Users : OtherSend(u, "Hello")
    \/ \E s \in 1..Len(sockets) : SockOpen(s)
    \/ \E s \in 1..Len(sockets) : CustSockMessage(s)

SpecSwitch == InitSwitch /\ [][NextSwitch]_vars

\* the conversations of the messages a customer view lists
ConvsShown(c) ==
    {log[k].conv : k \in {j \in 1..Len(log) :
                             \E i \in 1..Len(cust[c].chatHistory) :
                                cust[c].chatHistory[i].id = log[j].id}}

\* C25: the chat view of a customer lists messages of that customer's own
\* conversation only.
C25_AsStated ==
    \A c \in CustTabs :
        (cust[c].mounted /\ cust[c].isAuthenticated /\ ~cust[c].showNameInputScreen)
            => ConvsShown(c) \subseteq {ConvOf(cust[c].userId)}

(***************************************************************************)
(* Selections and late completions on a dashboard (SpecSelect).            *)
(***************************************************************************)
\* The dashboard of agent A with the conversation of the first customer
\* selected: the history fetch is in flight and the channel that captured the
\* selection is connecting.  A second customer writes; the agent selects,
\* replies, toggles the overview and switches.
SelectTab == "at1"

InitSelect ==
    /\ cust = [c \in CustTabs |-> InitCust]
    /\ dash = [a \in AgentTabs |->
                 IF a = SelectTab
                 THEN [MountedDash("A", 1, ConvOf(ChatUser))
                         EXCEPT !.loadingConversations = FALSE,
                                !.activeConversations =
                                    <<[id |-> ConvOf(ChatUser), user_id |-> ChatUser,
                                       assigned_agent_id |-> NULL,
                                       assigned_agent_name |-> NULL,
                                       last_message_summary |-> "Hello", status |-> "open"]>>]
                 ELSE InitDash]
    /\ sockets = <<NewSocket(SelectTab, "A", DashClosure("A", ConvOf(ChatUser)))>>
    /\ http = {[NoRequest EXCEPT !.kind = "hist_req", !.tab = SelectTab,
                                  !.conv = ConvOf(ChatUser)]}
    /\ log = <<FirstMessage>>
    /\ assigned = [conv \in Convs |-> NULL]
    /\ storage = [tab \in Tabs |->
                    IF tab = SelectTab THEN AgentItems("A") ELSE NoItems]
    /\ last = Step("init", NULL, NoEvent)

NextSelect ==
    \/ \E conv \in Convs : DashSelect(SelectTab, conv)
    \/ DashToggleOverview(SelectTab)
    \/ DashSwitchAgent(SelectTab)
    \/ \E r \in http : ServerHistory(r)
    \/ \E r \in http : DashHistoryDone(SelectTab, r)
    \/ DashReply(SelectTab, "Bye")
    \/ \E r \in http : ServerReply(r)
    \/ \E r \in http : DashReplyDone(SelectTab, r)
    \/ OtherSend("u2", "Hello")
    \/ \E s \in 1..Len(sockets) : SockOpen(s)
    \/ \E s \in 1..Len(sockets) : DashSockMessage(s)

SpecSelect == InitSelect /\ [][NextSelect]_vars

\* C31: every entry of selectedConversationMessages shows a message of the
\* conversation whose id is selectedConversationId; with no conversation
\* selected the list is empty.
C31_AsStated ==
    \A a \in AgentTabs :
        /\ \A i \in 1..Len(dash[a].selectedConversationMessages) :
              dash[a].selectedConversationMessages[i].conv
                  = dash[a].selectedConversationId
        /\ dash[a].selectedConversationId = NULL
              => dash[a].selectedConversationMessages = <<>>

(***************************************************************************)
(* Sockets and timers of a component (SpecLife).                           *)
(***************************************************************************)
\* the sockets of a component that are connecting or open
LiveSockets(tab) ==
    {s \in 1..Len(sockets) :
        sockets[s].owner = tab /\ sockets[s].st \in {"connecting", "open"}}

\* a component is mounted
Mounted(tab) == IF tab \in CustTabs THEN cust[tab].mounted ELSE dash[tab].mounted

\* C32: every socket of a component that is connecting or open is the one
\* ws.current of the mounted component refers to; so a component has at most
\* one such socket, and none that the effect cleanup left behind stays alive.
C32_AsStated ==
    \A tab \in {LifeCust, LifeDash} :
        /\ Cardinality(LiveSockets(tab)) <= 1
        /\ \A s \in LiveSockets(tab) : Mounted(tab) /\ ChannelOf(tab) = s

\* the timers of a component that are scheduled and not yet fired or cleared
TimersOf(tab) == IF tab \in CustTabs THEN cust[tab].timers ELSE dash[tab].timers

\* C33: a component has at most one reconnect timer pending, and
\* reconnectTimeout.current holds a timer exactly when one is pending, that
\* one; a close event that finds a timer pending leaves the timer as it was,
\* and when connectWebSocket has run from the timer no timer is pending.
C33_OneTimer ==
    /\ \A tab \in {LifeCust, LifeDash} :
          /\ Cardinality(TimersOf(tab)) <= 1
          /\ TimerOf(tab).set <=> TimersOf(tab) # {}
          /\ TimerOf(tab).set => TimersOf(tab) = {TimerOf(tab).by}
    /\ (last.op = "onclose" /\ last.pre.timer.set)
          => /\ TimerOf(last.tab) = last.pre.timer
             /\ TimersOf(last.tab) = {last.pre.timer.by}
    /\ last.op = "reconnect"
          => ~TimerOf(last.tab).set /\ TimersOf(last.tab) = {}

\* a socket of the customer chat failed while the reconnect timer of an
\* earlier failure was pending
C33_Witness ==
    /\ last.op = "onclose"
    /\ last.tab = LifeCust
    /\ last.pre.code = 1006
    /\ last.pre.timer.set
    /\ last.pre.timer.by # last.pre.sock
    /\ TimersOf(LifeCust) = {last.pre.timer.by}

(***************************************************************************)
(* The channel and the identity of the customer chat (SpecSwitch).         *)
(***************************************************************************)
\* C34: when ws.current of the customer chat is a connecting or open socket,
\* the socket was opened for the current userId and the customer is
\* authenticated with the name screen hidden; and while a customer is
\* identified, an event of a conversation that is not the one of the current
\* identity leaves chatHistory as it was.
C34_AsStated ==
    /\ ( /\ cust[SwitchTab].ws # NoSock
         /\ sockets[cust[SwitchTab].ws].st \in {"connecting", "open"} )
       => /\ sockets[cust[SwitchTab].ws].uid = cust[SwitchTab].userId
          /\ cust[SwitchTab].isAuthenticated
          /\ ~cust[SwitchTab].showNameInputScreen
    /\ ( /\ last.op = "onmessage"
         /\ last.tab = SwitchTab
         /\ cust[SwitchTab].isAuthenticated
         /\ ~cust[SwitchTab].showNameInputScreen
         /\ last.ev.conversation_id # ConvOf(cust[SwitchTab].userId) )
       => cust[SwitchTab].chatHistory = last.pre

(***************************************************************************)
(* The entries of the agent's own replies (SpecReply).                     *)
(***************************************************************************)
IsReply(m) == m.sender = "agent"

\* C35: every reply sent with handleReplySend has exactly one entry in the
\* message list of the sending dashboard when the request succeeded and none
\* when it failed: the list never shows more replies than the authority
\* accepted, the completion of a successful request adds one entry and the
\* completion of a failed one adds none, and the event of a reply that
\* carries the dashboard's own agent id leaves the list as it was.
C35_AsStated ==
    /\ \A a \in AgentTabs :
          Len(SelectSeq(dash[a].selectedConversationMessages, IsReply))
             <= Len(SelectSeq(log, IsReply))
    /\ last.op = "replyOk"
          => Len(dash[last.tab].selectedConversationMessages) = Len(last.pre) + 1
    /\ last.op = "replyFailed"
          => dash[last.tab].selectedConversationMessages = last.pre
    /\ ( /\ last.op = "onmessage" /\ last.tab \in AgentTabs
         /\ last.ev.type = "agent_chat_message"
         /\ last.ev.agent_id = dash[last.tab].agentId )
       => dash[last.tab].selectedConversationMessages = last.pre.msgs

(***************************************************************************)
(* The conversation list holds a conversation once (SpecAssign).           *)
(***************************************************************************)
\* C36: activeConversations never holds two entries with the same id; a
\* customer_message_analysis event for an id the list holds changes nothing
\* but last_message_summary of that entry, and for an id the list does not
\* hold appends one entry, open and unassigned.
C36_OneEntryPerConversation ==
    /\ \A a \in AgentTabs :
          \A i, j \in 1..Len(dash[a].activeConversations) :
             dash[a].activeConversations[i].id = dash[a].activeConversations[j].id
                => i = j
    /\ ( /\ last.op = "onmessage" /\ last.tab \in AgentTabs
         /\ last.ev.type = "customer_message_analysis" )
       => LET old == last.pre.list
              new == dash[last.tab].activeConversations
              conv == last.ev.conversation_id
          IN  IF HasConv(old, conv)
              THEN /\ Len(new) = Len(old)
                   /\ \A i \in 1..Len(old) :
                         new[i] = IF old[i].id = conv
                                  THEN [old[i] EXCEPT !.last_message_summary =
                                                          last.ev.text]
                                  ELSE old[i]
              ELSE /\ Len(new) = Len(old) + 1
                   /\ SubSeq(new, 1, Len(old)) = old
                   /\ new[Len(new)].id = conv
                   /\ new[Len(new)].status = "open"
                   /\ new[Len(new)].assigned_agent_id = NULL
                   /\ new[Len(new)].assigned_agent_name = NULL

\* a dashboard has just handled the event of a message in a conversation that
\* its list showed assigned to an agent
C36_Witness ==
    /\ last.op = "onmessage" /\ last.tab \in AgentTabs
    /\ last.ev.type = "customer_message_analysis"
    /\ \E i \in 1..Len(last.pre.list) :
          /\ last.pre.list[i].id = last.ev.conversation_id
          /\ last.pre.list[i].assigned_agent_id # NULL

(***************************************************************************)
(* The state of the provider and localStorage agree (SpecAuth).            *)
(***************************************************************************)
\* C37: once the provider has loaded, isAuthenticated is true exactly when
\* userId and userName are both non-null, and userId and userName in the state
\* are the values of the items customer_user_id and customer_user_name in
\* localStorage, whatever setCustomerIdentity and clearCustomerIdentity calls
\* were made.
C37_StateMatchesStorage ==
    cust[AuthTab].mounted
       => /\ cust[AuthTab].isAuthenticated
                <=> (cust[AuthTab].userId # NULL /\ cust[AuthTab].userName # NULL)
          /\ cust[AuthTab].userId = storage[AuthTab].customer_user_id
          /\ cust[AuthTab].userName = storage[AuthTab].customer_user_name

\* clearCustomerIdentity has just run on an identity that setCustomerIdentity
\* had set
C37_Witness ==
    /\ last.op = "handleStartNewChat"
    /\ last.tab = AuthTab
    /\ cust[AuthTab].logins > 0
    /\ ~cust[AuthTab].isAuthenticated
    /\ storage[AuthTab].customer_user_id = NULL

(***************************************************************************)
(* One customer send at a time (SpecChat).                                 *)
(***************************************************************************)
\* C38: the customer's tab has at most one send in flight; isSending is true
\* exactly while the request of a send, or its response, is under way, so a
\* handleSendMessage that appended an entry and issued a request ran while
\* isSending was false; and isSending is false again once the send has ended,
\* accepted or rejected.
C38_OneSendInFlight ==
    /\ Cardinality(PostsInFlight(ChatTab)) <= 1
    /\ cust[ChatTab].isSending <=> PostsInFlight(ChatTab) # {}
    /\ (last.op \in {"sendOk", "sendFailed"} /\ last.tab = ChatTab)
          => ~cust[ChatTab].isSending

\* a second send of the tab has just ended with a rejection
C38_Witness ==
    /\ last.op = "sendFailed"
    /\ last.tab = ChatTab
    /\ cust[ChatTab].sends = 2
    /\ ~cust[ChatTab].isSending

(***************************************************************************)
(* Events of a conversation that is not selected (SpecStale).              *)
(***************************************************************************)
\* The dashboard of agent A some time after mount.  Two customers had
\* written and the list showed both conversations; the agent selected the
\* first conversation and, before the channel created for that selection had
\* opened, the second one.  The cleanup left the connecting socket alone, a
\* second socket was created for the new selection, the first socket then
\* opened, and the first customer wrote again: the event of that message
\* waits on the first socket.  An agent on another dashboard claims and
\* releases.
StaleTab == "at1"

SecondMessage ==
    [FirstMessage EXCEPT !.id = MsgIds[2], !.conv = ConvOf("u2"),
                         !.timestamp = ServerTimes[2]]
ThirdMessage ==
    [FirstMessage EXCEPT !.id = MsgIds[3], !.text = "Bye",
                         !.timestamp = ServerTimes[3]]

InitStale ==
    /\ cust = [c \in CustTabs |-> InitCust]
    /\ dash = [a \in AgentTabs |->
                 IF a = StaleTab
                 THEN [MountedDash("A", 2, ConvOf("u2"))
                         EXCEPT !.loadingConversations = FALSE,
                                !.activeConversations =
                                    [i \in 1..2 |->
                                      [id |-> ConvOf(<<"u1", "u2">>[i]),
                                       user_id |-> <<"u1", "u2">>[i],
                                       assigned_agent_id |-> NULL,
                                       assigned_agent_name |-> NULL,
                                       last_message_summary |-> "Hello",
                                       status |-> "open"]]]
                 ELSE InitDash]
    /\ sockets = <<[NewSocket(StaleTab, "A", DashClosure("A", ConvOf("u1")))
                      EXCEPT !.st = "open",
                             !.inbox = <<AnalysisEvent(ThirdMessage, "u1")>>],
                   NewSocket(StaleTab, "A", DashClosure("A", ConvOf("u2")))>>
    /\ http = {[NoRequest EXCEPT !.kind = "hist_req", !.tab = StaleTab,
                                  !.conv = ConvOf("u2")]}
    /\ log = <<FirstMessage, SecondMessage, ThirdMessage>>
    /\ assigned = [conv \in Convs |-> NULL]
    /\ storage = [tab \in Tabs |->
                    IF tab = StaleTab THEN AgentItems("A") ELSE NoItems]
    /\ last = Step("init", NULL, NoEvent)

NextStale ==
    \/ \E conv \in Convs : DashSelect(StaleTab, conv)
    \/ \E r \in http : ServerHistory(r)
    \/ \E r \in http : DashHistoryDone(StaleTab, r)
    \/ \E conv \in Convs : OtherClaim(conv, "B")
    \/ \E conv \in Convs : OtherRelease(conv, FALSE)
    \/ \E s \in 1..Len(sockets) : SockOpen(s)
    \/ \E s \in 1..Len(sockets) : DashSockMessage(s)

SpecStale == InitStale /\ [][NextStale]_vars

\* C39: a customer_message_analysis or agent_chat_message event of a
\* conversation other than the selected one leaves
\* selectedConversationMessages and aiSuggestions as they were, and so does
\* every conversation_assigned and conversation_unassigned event.
C39_AsStated ==
    ( /\ last.op = "onmessage"
      /\ last.tab = StaleTab
      /\ \/ /\ last.ev.type \in {"customer_message_analysis", "agent_chat_message"}
            /\ last.ev.conversation_id # dash[StaleTab].selectedConversationId
         \/ last.ev.type \in {"conversation_assigned", "conversation_unassigned"} )
    => /\ dash[StaleTab].selectedConversationMessages = last.pre.msgs
       /\ dash[StaleTab].aiSuggestions = last.pre.sugg

(***************************************************************************)
(* Send on the pre-written response (SpecPrewritten).                      *)
(***************************************************************************)
\* The dashboard of agent A with the conversation of a customer selected,
\* whose first message was analysed: the history fetch is in flight and the
\* channel is connecting.  The agent types, sends replies and uses Send on
\* the pre-written response of the suggestions.
PrewrittenTab == "at1"

AnalysedMessage == [FirstMessage EXCEPT !.analysis = "analysis"]

InitPrewritten ==
    /\ cust = [c \in CustTabs |-> InitCust]
    /\ dash = [a \in AgentTabs |->
                 IF a = PrewrittenTab
                 THEN [MountedDash("A", 1, ConvOf(ChatUser))
                         EXCEPT !.loadingConversations = FALSE,
                                !.activeConversations =
                                    <<[id |-> ConvOf(ChatUser), user_id |-> ChatUser,
                                       assigned_agent_id |-> NULL,
                                       assigned_agent_name |-> NULL,
                                       last_message_summary |-> "Hello",
                                       status |-> "open"]>>]
                 ELSE InitDash]
    /\ sockets = <<NewSocket(PrewrittenTab, "A",
                             DashClosure("A", ConvOf(ChatUser)))>>
    /\ http = {[NoRequest EXCEPT !.kind = "hist_req", !.tab = PrewrittenTab,
                                  !.conv = ConvOf(ChatUser)]}
    /\ log = <<AnalysedMessage>>
    /\ assigned = [conv \in Convs |-> NULL]
    /\ storage = [tab \in Tabs |->
                    IF tab = PrewrittenTab THEN AgentItems("A") ELSE NoItems]
    /\ last = Step("init", NULL, NoEvent)

NextPrewritten ==
    \/ \E r \in http : ServerHistory(r)
    \/ \E r \in http : DashHistoryDone(PrewrittenTab, r)
    \/ \E text \in Texts \cup {""} : DashType(PrewrittenTab, text)
    \/ DashReplyClick(PrewrittenTab)
    \/ DashSendPrewritten(PrewrittenTab)
    \/ DashPrewrittenFire(PrewrittenTab)
    \/ \E r \in http : ServerReply(r)
    \/ \E r \in http : DashReplyDone(PrewrittenTab, r)
    \/ \E s \in 1..Len(sockets) : SockOpen(s)

SpecPrewritten == InitPrewritten /\ [][NextPrewritten]_vars

\* C40: once the timeout of a click on Send under the pre-written response
\* has fired, the dashboard has issued one request for a reply more than
\* before, to the conversation selected at the click and with the text of the
\* pre-written response shown at the click.
C40_AsStated ==
    (last.op = "prewrittenTimeout" /\ last.tab = PrewrittenTab)
       => \E r \in RepliesInFlight(PrewrittenTab) :
             /\ RepliesInFlight(PrewrittenTab) = last.pre.reqs \cup {r}
             /\ r \notin last.pre.reqs
             /\ r.conv = last.pre.conv
             /\ r.text = last.pre.shown

====
